---------------------------- MODULE Spec2Model ----------------------------
(***************************************************************************)
(* A model of the gwas-scrnaseq-integration pipelines:                     *)
(*   - make_reference.commands.merge_bfiles (merge, prune, retry)          *)
(*   - gwas_processing.utils.munge_gwas                                    *)
(*   - score_cells.utils.munge_magma                                       *)
(* Text (column names, flag keys, identifiers) is a sequence of one-       *)
(* character strings, so that regular expressions, joins and str()         *)
(* conversions are computed and not assumed.                               *)
(***************************************************************************)
EXTENDS Integers, Sequences, FiniteSets, TLC

(***************************************************************************)
(* Bounds of the model.                                                    *)
(***************************************************************************)
MaxSets == 3
MaxConflictLines == 2
MaxRows == 2
MaxGenes == 3
MaxN == 4

(***************************************************************************)
(* The state: of a run of merge_bfiles, of munge_gwas and of munge_magma.  *)
(***************************************************************************)
VARIABLES bfile_sets, keep, output_prefix, PATH, files, to_merge, flags,
          prune_flags, merge_problem_variants, prune_i, plink_calls, mpc,
          merr, merged

mergeVars == <<bfile_sets, keep, output_prefix, PATH, files, to_merge, flags,
               prune_flags, merge_problem_variants, prune_i, plink_calls, mpc,
               merr, merged>>

VARIABLES gwas_header, gwas_rows, gwas_args, column_patterns, gwas, gpc, gerr

gwasVars == <<gwas_header, gwas_rows, gwas_args, column_patterns, gwas, gpc, gerr>>

VARIABLES magma_header, magma_rows, magma_args, trait_gene_set, gene_set_text,
          gene_set_out, spc, serr

magmaVars == <<magma_header, magma_rows, magma_args, trait_gene_set, gene_set_text,
               gene_set_out, spc, serr>>

VARIABLES tree, ancestries, walk_i, found_sets, usable, upc, uerr

discVars == <<tree, ancestries, walk_i, found_sets, usable, upc, uerr>>

VARIABLES tool_call, call_no_arg_flags, call_yes_arg_flags, tool_calls, tool_files, tool_out,
          tpc, terr

toolVars == <<tool_call, call_no_arg_flags, call_yes_arg_flags, tool_calls,
              tool_files, tool_out, tpc, terr>>

vars == <<mergeVars, gwasVars, magmaVars, discVars, toolVars>>

(***************************************************************************)
(* Text helpers.                                                           *)
(***************************************************************************)
Digits == {"0", "1", "2", "3", "4", "5", "6", "7", "8", "9"}

LowerLetters ==
    {"a", "b", "c", "d", "e", "f", "g", "h", "i", "j", "k", "l", "m",
     "n", "o", "p", "q", "r", "s", "t", "u", "v", "w", "x", "y", "z"}

UpperToLower ==
    [c \in {"A", "B", "C", "D", "E", "F", "G", "H", "I", "J", "K", "L", "M",
            "N", "O", "P", "Q", "R", "S", "T", "U", "V", "W", "X", "Y", "Z"} |->
        CASE c = "A" -> "a" [] c = "B" -> "b" [] c = "C" -> "c" [] c = "D" -> "d"
          [] c = "E" -> "e" [] c = "F" -> "f" [] c = "G" -> "g" [] c = "H" -> "h"
          [] c = "I" -> "i" [] c = "J" -> "j" [] c = "K" -> "k" [] c = "L" -> "l"
          [] c = "M" -> "m" [] c = "N" -> "n" [] c = "O" -> "o" [] c = "P" -> "p"
          [] c = "Q" -> "q" [] c = "R" -> "r" [] c = "S" -> "s" [] c = "T" -> "t"
          [] c = "U" -> "u" [] c = "V" -> "v" [] c = "W" -> "w" [] c = "X" -> "x"
          [] c = "Y" -> "y" [] c = "Z" -> "z"]

\* str.lower() / re.IGNORECASE folding of one character and of a text
LowerChar(c) == IF c \in DOMAIN UpperToLower THEN UpperToLower[c] ELSE c

Lower(s) == [i \in 1..Len(s) |-> LowerChar(s[i])]

\* p occurs in s starting at position i
MatchAt(s, p, i) ==
    /\ i >= 1
    /\ i + Len(p) - 1 <= Len(s)
    /\ \A k \in 1..Len(p) : s[i + k - 1] = p[k]

StartsWith(s, p) == MatchAt(s, p, 1)

Contains(s, p) == \E i \in 1..(Len(s) + 1) : MatchAt(s, p, i)

\* sep.join(parts)
RECURSIVE Join(_, _)
Join(parts, sep) ==
    IF Len(parts) = 0 THEN <<>>
    ELSE IF Len(parts) = 1 THEN parts[1]
    ELSE parts[1] \o sep \o Join(Tail(parts), sep)

DigitChar(d) ==
    CASE d = 0 -> "0" [] d = 1 -> "1" [] d = 2 -> "2" [] d = 3 -> "3" [] d = 4 -> "4"
      [] d = 5 -> "5" [] d = 6 -> "6" [] d = 7 -> "7" [] d = 8 -> "8" [] d = 9 -> "9"

\* str(n) of a non-negative integer
RECURSIVE IntToStr(_)
IntToStr(n) ==
    IF n < 10 THEN <<DigitChar(n)>>
    ELSE IntToStr(n \div 10) \o <<DigitChar(n % 10)>>

Range(f) == {f[i] : i \in DOMAIN f}

\* the sequences over S of length lo..hi
SeqsOf(S, lo, hi) == UNION {[1..n -> S] : n \in lo..hi}

\* the sequences over S without repetition, of length 0..hi
DistinctSeqs(S, hi) ==
    {q \in SeqsOf(S, 0, hi) : \A i, j \in 1..Len(q) : i # j => q[i] # q[j]}

(***************************************************************************)
(* Python dictionaries keep insertion order: a sequence of <<key, value>>. *)
(***************************************************************************)
DictHas(d, k) == \E i \in 1..Len(d) : d[i][1] = k

DictGet(d, k) == d[CHOOSE i \in 1..Len(d) : d[i][1] = k][2]

\* d[k] = v : replaces in place, or appends a new key
DictSet(d, k, v) ==
    IF DictHas(d, k)
    THEN [i \in 1..Len(d) |-> IF d[i][1] = k THEN <<k, v>> ELSE d[i]]
    ELSE Append(d, <<k, v>>)


(***************************************************************************)
(* make_reference: paths, files of the working directory, flag keys.       *)
(* A path is a directory and the pieces of its file name; a file of the    *)
(* working directory is keyed by the pieces of its name.                   *)
(***************************************************************************)
WorkDir == "work"

Path(dir, name) == [dir |-> dir, name |-> name]

\* os.path.basename of a bfile prefix
Basename(bfile) == bfile.name[1]

\* the bfile prefixes discovery may hand to merge_bfiles
Bfiles == {Path("kg", <<"afr">>), Path("kg", <<"eur">>), Path("alt", <<"afr">>)}

kMakeBed == <<"-", "-", "m", "a", "k", "e", "-", "b", "e", "d">>
kBfile == <<"-", "-", "b", "f", "i", "l", "e">>
kMergeList == <<"-", "-", "m", "e", "r", "g", "e", "-", "l", "i", "s", "t">>
kExclude == <<"-", "-", "e", "x", "c", "l", "u", "d", "e">>
kOut == <<"-", "-", "o", "u", "t">>

PlinkDir == <<"/", "p", "l", "i", "n", "k">>

\* values of the PATH environment variable
PathChoices ==
    {<<"/", "b", "i", "n">>,
     <<"/", "b", "i", "n", ":", "/", "o", "p", "t", "/", "p", "l", "i", "n", "k">>}

MergeListFile == <<"merge_list", ".txt">>
ExcludeFile == <<"exclude_merge_variants", ".txt">>
FailedMissnp == <<"failed_merge", ".missnp">>
FailedLog == <<"failed_merge", ".log">>
\* the names prune_problem_variants opens and renames
HardMissnp == <<"merge", "-merge.missnp">>
HardLog == <<"merge", ".log">>

MergedSuffixes == {".bed", ".bim", ".fam"}

\* lines the merge tool may write to its conflict list
MissnpLines ==
    {<<"r", "s", "1">>, <<"r", "s", "2", "5">>, <<"1", ":", "5">>,
     <<"a", "r", "s", "7", "b">>}

\* the keep arguments of merge_bfiles: None (the default) or a list of
\* patterns, each a regular expression
KeepChoices ==
    {[given |-> FALSE, patterns |-> <<>>],
     [given |-> TRUE, patterns |-> <<>>],
     [given |-> TRUE, patterns |-> <<<<"a", "f", "r">>>>],
     [given |-> TRUE, patterns |-> <<<<"k", "g">>>>],
     [given |-> TRUE, patterns |-> <<<<"a">>>>],
     [given |-> TRUE, patterns |-> <<<<"g", "/", "e">>>>],
     [given |-> TRUE, patterns |-> <<<<"k", ".">>>>],
     [given |-> TRUE, patterns |-> <<<<"e", "u", "r">>, <<"l", "t", "/">>>>],
     [given |-> TRUE, patterns |-> <<<<"^", "k", "g">>>>],
     [given |-> TRUE, patterns |-> <<<<"r", "$">>>>],
     [given |-> TRUE, patterns |-> <<<<"a", "f", "r", "|", "e", "u", "r">>>>],
     [given |-> TRUE, patterns |-> <<<<"[", "a", "e", "]", "u", "r">>>>],
     [given |-> TRUE, patterns |-> <<<<"a", "+", "f">>>>],
     [given |-> TRUE, patterns |-> <<<<"[", "+", "-", "9", "]", "e">>>>],
     [given |-> TRUE, patterns |-> <<<<"k", "[", "9", "-", "0", "]">>>>],
     [given |-> TRUE, patterns |-> <<<<"(">>>>]}


\* os.rename(old, new) / writing a file, on the files of the working directory
FileWrite(fs, name, content) == (name :> content) @@ fs

FileRename(fs, old, new) ==
    (new :> fs[old]) @@ [k \in (DOMAIN fs) \ {old} |-> fs[k]]

\* re.search(r"rs\d+", line): the leftmost "rs" followed by a digit, with
\* all the digits that follow; <<>> when there is none
RsAt(line, i) ==
    /\ MatchAt(line, <<"r", "s">>, i)
    /\ i + 2 <= Len(line)
    /\ line[i + 2] \in Digits

RECURSIVE DigitRunEnd(_, _)
DigitRunEnd(line, j) ==
    IF j + 1 <= Len(line) /\ line[j + 1] \in Digits
    THEN DigitRunEnd(line, j + 1)
    ELSE j

VariantSearch(line) ==
    IF \E i \in 1..Len(line) : RsAt(line, i)
    THEN LET i == CHOOSE k \in 1..Len(line) :
                      RsAt(line, k) /\ \A m \in 1..(k - 1) : ~RsAt(line, m)
         IN SubSeq(line, i, DigitRunEnd(line, i + 2))
    ELSE <<>>

\* the loop of prune_problem_variants over the lines of the conflict list
RECURSIVE ExtractVariants(_)
ExtractVariants(lines) ==
    IF Len(lines) = 0 THEN <<>>
    ELSE LET v == VariantSearch(lines[1])
         IN (IF v # <<>> THEN <<v>> ELSE <<>>) \o ExtractVariants(Tail(lines))

(***************************************************************************)
(* The regular expressions of keep_bfiles.  Text is of the printable ASCII *)
(* characters and the newline.  A pattern is matched as the re module      *)
(* matches it, for this syntax: literal characters, "." (any character but *)
(* the newline), the anchors "^" and "$", "|", groups "(...)", classes     *)
(* "[...]" of characters and ranges of characters ("[^...]" negated), the  *)
(* repeats "*", "+", "?" and their lazy forms, and "\" before a character  *)
(* ("\d" a digit, "\w" a letter, digit or "_", else the character         *)
(* itself).  A match of a piece of the pattern in the key from position i  *)
(* is the set of positions it may end at.                                  *)
(***************************************************************************)
\* the printable characters in the order of their codes: those of codes 32
\* (the space) to 95, and those of codes 97 to 126 (code 96, the grave
\* accent, is in no text here)
AsciiChars ==
    <<<<" ", "!", "\"", "#", "$", "%", "&", "'", "(", ")", "*", "+",
        ",", "-", ".", "/", "0", "1", "2", "3", "4", "5", "6", "7",
        "8", "9", ":", ";", "<", "=", ">", "?", "@", "A", "B", "C",
        "D", "E", "F", "G", "H", "I", "J", "K", "L", "M", "N", "O",
        "P", "Q", "R", "S", "T", "U", "V", "W", "X", "Y", "Z", "[",
        "\\", "]", "^", "_">>,
      <<"a", "b", "c", "d", "e", "f", "g", "h", "i", "j", "k", "l",
        "m", "n", "o", "p", "q", "r", "s", "t", "u", "v", "w", "x",
        "y", "z", "{", "|", "}", "~">>>>

\* ord(c)
Ord(c) ==
    IF c = "\n" THEN 10
    ELSE IF c \in Range(AsciiChars[1])
    THEN 31 + (CHOOSE n \in 1..Len(AsciiChars[1]) : AsciiChars[1][n] = c)
    ELSE 96 + (CHOOSE n \in 1..Len(AsciiChars[2]) : AsciiChars[2][n] = c)

\* the position of the "]" that closes the class opened at p[i], 0 without
\* one; a "]" that is the first member of the class is a member
ClassEnd(p, i) ==
    LET first == IF i + 1 <= Len(p) /\ p[i + 1] = "^" THEN i + 2 ELSE i + 1
        closes == {j \in (first + 1)..Len(p) : p[j] = "]"}
    IN IF closes = {} THEN 0
       ELSE CHOOSE j \in closes : \A k \in closes : j <= k

\* the members of the class opened at p[i]: what stands between "[" or "[^"
\* and the closing "]"
ClassMembers(p, i) ==
    SubSeq(p, IF p[i + 1] = "^" THEN i + 2 ELSE i + 1, ClassEnd(p, i) - 1)

\* no range of the members m, from member k on, ends before it starts
\* (re.error: bad character range)
RECURSIVE ClassValid(_, _)
ClassValid(m, k) ==
    IF k > Len(m) THEN TRUE
    ELSE IF k + 2 <= Len(m) /\ m[k + 1] = "-"
    THEN Ord(m[k]) <= Ord(m[k + 2]) /\ ClassValid(m, k + 3)
    ELSE ClassValid(m, k + 1)

\* the first position from i of character c outside every group, class and
\* escape of p, 0 without one; depth counts the groups opened since i
RECURSIVE TopFind(_, _, _, _)
TopFind(p, i, depth, c) ==
    IF i > Len(p) THEN 0
    ELSE IF p[i] = "\\" THEN TopFind(p, i + 2, depth, c)
    ELSE IF p[i] = "["
    THEN IF ClassEnd(p, i) = 0 THEN 0 ELSE TopFind(p, ClassEnd(p, i) + 1, depth, c)
    ELSE IF p[i] = c /\ depth = 0 THEN i
    ELSE IF p[i] = "(" THEN TopFind(p, i + 1, depth + 1, c)
    ELSE IF p[i] = ")"
    THEN IF depth = 0 THEN 0 ELSE TopFind(p, i + 1, depth - 1, c)
    ELSE TopFind(p, i + 1, depth, c)

\* re.compile accepts p from position i; prev is what precedes: "none" (the
\* start of a branch), "at" (an anchor), "atom" or "repeat".  A repeat needs
\* an atom before it, every group its ")", every class its "]" and every
\* range of a class its end points in order
RECURSIVE RegexValid(_, _, _)
RegexValid(p, i, prev) ==
    IF i > Len(p) THEN TRUE
    ELSE IF p[i] \in {"*", "+", "?"}
    THEN /\ prev = "atom"
         /\ RegexValid(p, IF i + 1 <= Len(p) /\ p[i + 1] = "?" THEN i + 2 ELSE i + 1,
                       "repeat")
    ELSE IF p[i] = "|" THEN RegexValid(p, i + 1, "none")
    ELSE IF p[i] \in {"^", "$"} THEN RegexValid(p, i + 1, "at")
    ELSE IF p[i] = "\\" THEN i + 1 <= Len(p) /\ RegexValid(p, i + 2, "atom")
    ELSE IF p[i] = "["
    THEN /\ ClassEnd(p, i) # 0
         /\ ClassValid(ClassMembers(p, i), 1)
         /\ RegexValid(p, ClassEnd(p, i) + 1, "atom")
    ELSE IF p[i] = "("
    THEN LET e == TopFind(p, i + 1, 0, ")")
         IN /\ e # 0
            /\ RegexValid(SubSeq(p, i + 1, e - 1), 1, "none")
            /\ RegexValid(p, e + 1, "atom")
    ELSE IF p[i] = ")" THEN FALSE
    ELSE RegexValid(p, i + 1, "atom")

\* character c is among the members m of a class, from member k on: a
\* range holds the characters whose codes lie between those of its end points
RECURSIVE ClassHas(_, _, _)
ClassHas(m, k, c) ==
    IF k > Len(m) THEN FALSE
    ELSE IF k + 2 <= Len(m) /\ m[k + 1] = "-"
    THEN \/ Ord(m[k]) <= Ord(c) /\ Ord(c) <= Ord(m[k + 2])
         \/ ClassHas(m, k + 3, c)
    ELSE m[k] = c \/ ClassHas(m, k + 1, c)

RECURSIVE AtomEnds(_, _, _), StarEnds(_, _, _, _), SeqEnds(_, _, _), AltEnds(_, _, _)

\* one atom: a group, a class, an escape, ".", an anchor or a character; "$"
\* is the end of the key and the place before a newline that ends it
AtomEnds(atom, key, i) ==
    LET here(ok) == IF i <= Len(key) /\ ok THEN {i + 1} ELSE {}
    IN IF atom[1] = "(" THEN AltEnds(SubSeq(atom, 2, Len(atom) - 1), key, i)
       ELSE IF atom[1] = "["
       THEN IF atom[2] = "^"
            THEN here(i <= Len(key) /\ ~ClassHas(ClassMembers(atom, 1), 1, key[i]))
            ELSE here(i <= Len(key) /\ ClassHas(ClassMembers(atom, 1), 1, key[i]))
       ELSE IF atom[1] = "\\"
       THEN IF atom[2] = "d" THEN here(i <= Len(key) /\ key[i] \in Digits)
            ELSE IF atom[2] = "w"
            THEN here(i <= Len(key)
                      /\ key[i] \in Digits \cup LowerLetters
                                    \cup DOMAIN UpperToLower \cup {"_"})
            ELSE here(i <= Len(key) /\ key[i] = atom[2])
       ELSE IF atom[1] = "." THEN here(i <= Len(key) /\ key[i] # "\n")
       ELSE IF atom[1] = "^" THEN (IF i = 1 THEN {i} ELSE {})
       ELSE IF atom[1] = "$"
       THEN (IF i = Len(key) + 1 \/ (i = Len(key) /\ key[i] = "\n") THEN {i} ELSE {})
       ELSE here(i <= Len(key) /\ key[i] = atom[1])

\* the positions any number of the atom, up to n more, lead to from those of S
StarEnds(atom, key, S, n) ==
    LET more == S \cup UNION {AtomEnds(atom, key, j) : j \in S}
    IN IF n = 0 \/ more = S THEN S ELSE StarEnds(atom, key, more, n - 1)

\* a branch: its atoms one after the other, each with its repeat
SeqEnds(p, key, i) ==
    IF Len(p) = 0 THEN {i}
    ELSE LET e == CASE p[1] = "\\" -> 2
                    [] p[1] = "[" -> ClassEnd(p, 1)
                    [] p[1] = "(" -> TopFind(p, 2, 0, ")")
                    [] OTHER -> 1
             atom == SubSeq(p, 1, e)
             repeat == IF e + 1 <= Len(p) /\ p[e + 1] \in {"*", "+", "?"}
                       THEN p[e + 1] ELSE "1"
             next == IF repeat = "1" THEN e + 1
                     ELSE IF e + 2 <= Len(p) /\ p[e + 2] = "?" THEN e + 3
                     ELSE e + 2
             once == AtomEnds(atom, key, i)
             ends == CASE repeat = "*" -> StarEnds(atom, key, {i}, Len(key) + 1)
                       [] repeat = "+" -> StarEnds(atom, key, once, Len(key) + 1)
                       [] repeat = "?" -> {i} \cup once
                       [] OTHER -> once
         IN UNION {SeqEnds(SubSeq(p, next, Len(p)), key, j) : j \in ends}

\* the branches of an alternation
AltEnds(p, key, i) ==
    LET bar == TopFind(p, 1, 0, "|")
    IN IF bar = 0 THEN SeqEnds(p, key, i)
       ELSE SeqEnds(SubSeq(p, 1, bar - 1), key, i)
            \cup AltEnds(SubSeq(p, bar + 1, Len(p)), key, i)

\* p is written in the syntax above: text of the characters above, no "(?"
\* extension, no "{" repeat, no possessive repeat, no escape but "\d", "\w"
\* and that of a character which is no letter or digit, no "\" in a pattern
\* that has a class
RegexCovered(p) ==
    \A i \in 1..Len(p) :
        LET next == IF i + 1 <= Len(p) THEN p[i + 1] ELSE ""
            alnum == Digits \cup LowerLetters \cup DOMAIN UpperToLower
        IN /\ p[i] \in Range(AsciiChars[1]) \cup Range(AsciiChars[2]) \cup {"\n"}
           /\ p[i] \notin {"{", "}"}
           /\ p[i] = "(" => next # "?"
           /\ p[i] \in {"*", "+", "?"} => next # "+"
           /\ p[i] = "\\" => next \notin alnum \ {"d", "w"}
           /\ p[i] = "[" => \A k \in 1..Len(p) : p[k] # "\\"

\* re.search(p, key) finds a match
RegexSearch(p, key) == \E i \in 1..(Len(key) + 1) : AltEnds(p, key, i) # {}

\* the characters of a directory or base name of a bfile prefix
Chars(s) ==
    CASE s = "kg" -> <<"k", "g">>
      [] s = "alt" -> <<"a", "l", "t">>
      [] s = "afr" -> <<"a", "f", "r">>
      [] s = "eur" -> <<"e", "u", "r">>

\* the key of a bfile set in bfile_sets: the text of its prefix
KeyText(bfile) == Chars(bfile.dir) \o <<"/">> \o Chars(Basename(bfile))

\* "|".join([f"({pattern})" for pattern in keep])
ToKeep(patterns) ==
    Join([n \in 1..Len(patterns) |-> <<"(">> \o patterns[n] \o <<")">>], <<"|">>)

\* re.search(to_keep, bfile_set)
KeepMatches(patterns, bfile) == RegexSearch(ToKeep(patterns), KeyText(bfile))

\* the sets keep_bfiles leaves in bfile_sets
keep_bfiles(sets, patterns) ==
    SelectSeq(sets, LAMBDA b : KeepMatches(patterns, b))

\* re.search(r"^--[a-z]", key)
KeyIsFlag(key) ==
    /\ Len(key) >= 3
    /\ key[1] = "-"
    /\ key[2] = "-"
    /\ key[3] \in LowerLetters

\* f"{key}={value}"
EqToken(key, value) == key \o <<"=">> \o value

\* the command list run_plink builds
RECURSIVE PlinkPairs(_)
PlinkPairs(d) ==
    IF Len(d) = 0 THEN <<>>
    ELSE (IF KeyIsFlag(d[1][1]) THEN <<d[1][1], d[1][2]>>
          ELSE <<EqToken(d[1][1], d[1][2])>>) \o PlinkPairs(Tail(d))

PlinkCommandList(no_arg_flags, yes_arg_flags) ==
    no_arg_flags \o PlinkPairs(yes_arg_flags)

(***************************************************************************)
(* The external merge tool.  What it does with a command is not decided    *)
(* by this repository: an invocation ends in one of these outcomes.        *)
(***************************************************************************)
PlinkOutcomes(yes_arg_flags) ==
    IF DictHas(yes_arg_flags, kMergeList)
    THEN {[kind |-> "ok", produced |-> p, lines |-> <<>>] : p \in SUBSET MergedSuffixes}
         \cup {[kind |-> "conflict", produced |-> {}, lines |-> l] :
                  l \in SeqsOf(MissnpLines, 1, MaxConflictLines)}
         \cup {[kind |-> "fail", produced |-> {}, lines |-> <<>>]}
    ELSE {[kind |-> "ok", produced |-> {}, lines |-> <<>>],
          [kind |-> "fail", produced |-> {}, lines |-> <<>>]}

\* the bfile sets an invocation reads: --bfile, and the sets --merge-list names
PlinkReads(fs, yes_arg_flags) ==
    <<DictGet(yes_arg_flags, kBfile)>>
    \o (IF DictHas(yes_arg_flags, kMergeList)
        THEN fs[DictGet(yes_arg_flags, kMergeList).name]
        ELSE <<>>)

\* the files of the working directory after an invocation: every output is
\* named from the value of --out
PlinkEffect(fs, yes_arg_flags, outcome) ==
    LET out == DictGet(yes_arg_flags, kOut).name
        logged == FileWrite(fs, out \o <<".log">>, "log")
    IN IF DictHas(yes_arg_flags, kMergeList)
       THEN CASE outcome.kind = "ok" ->
                   [s \in {out \o <<x>> : x \in outcome.produced} |-> "merged"] @@ logged
              [] outcome.kind = "conflict" ->
                   FileWrite(logged, out \o <<"-merge.missnp">>, outcome.lines)
              [] OTHER -> logged
       ELSE IF outcome.kind = "ok"
            THEN FileWrite(logged, out,
                           [src |-> DictGet(yes_arg_flags, kBfile),
                            excluded |-> fs[DictGet(yes_arg_flags, kExclude).name]])
            ELSE logged

(***************************************************************************)
(* run_plink: the PATH assertion, the command list, the invocation.  A     *)
(* non-zero exit raises sh.ErrorReturnCode: handled (after_fail is the     *)
(* handler's position) or propagated to the caller ("raised").             *)
(***************************************************************************)
run_plink(no_arg_flags, yes_arg_flags, after_ok, after_fail) ==
    IF ~Contains(PATH, PlinkDir)
    THEN /\ merr' = "AssertionError"
         /\ mpc' = "raised"
         /\ UNCHANGED <<plink_calls, files>>
    ELSE \E outcome \in PlinkOutcomes(yes_arg_flags) :
            /\ plink_calls' = Append(plink_calls,
                   [cmd |-> PlinkCommandList(no_arg_flags, yes_arg_flags),
                    reads |-> PlinkReads(files, yes_arg_flags),
                    exit |-> outcome.kind])
            /\ files' = PlinkEffect(files, yes_arg_flags, outcome)
            /\ IF outcome.kind = "ok"
               THEN mpc' = after_ok /\ merr' = merr
               ELSE /\ mpc' = after_fail
                    /\ merr' = IF after_fail = "raised" THEN "ErrorReturnCode" ELSE merr

\* the flags of the first merge attempt
MergeFlags ==
    <<<<kBfile, to_merge[1]>>,
      <<kMergeList, Path(WorkDir, MergeListFile)>>,
      <<kOut, Path(WorkDir, <<output_prefix>>)>>>>

\* f"{work_dir}/{os.path.basename(bfile)}.pruned"
PrunedPath(bfile) == Path(WorkDir, <<Basename(bfile), ".pruned">>)

pruned_bfiles == [i \in 1..Len(bfile_sets) |-> PrunedPath(bfile_sets[i])]

\* the flags of one prune invocation
PruneFlags(d, bfile) ==
    DictSet(DictSet(DictSet(d, kBfile, bfile),
                    kExclude, Path(WorkDir, ExcludeFile)),
            kOut, PrunedPath(bfile))

\* the flags of the retry
RetryFlags == DictSet(flags, kBfile, pruned_bfiles[1])

(***************************************************************************)
(* merge_bfiles, step by step.                                             *)
(***************************************************************************)
MergeInit ==
    /\ bfile_sets \in DistinctSeqs(Bfiles, MaxSets)
    /\ keep \in {k \in KeepChoices : RegexCovered(ToKeep(k.patterns))}
    /\ output_prefix \in {"merge", "ref"}
    /\ PATH \in PathChoices
    /\ files = <<>>
    /\ to_merge = <<>>
    /\ flags = <<>>
    /\ prune_flags = <<>>
    /\ merge_problem_variants = <<>>
    /\ prune_i = 0
    /\ plink_calls = <<>>
    /\ mpc = "start"
    /\ merr = "none"
    /\ merged = <<>>
    /\ gwas_header = <<>>
    /\ gwas_rows = <<>>
    /\ gwas_args = <<>>
    /\ column_patterns = <<>>
    /\ gwas = [cols |-> <<>>, idx |-> <<>>, rows |-> <<>>]
    /\ gpc = "idle"
    /\ gerr = "none"
    /\ magma_header = <<>>
    /\ magma_rows = <<>>
    /\ magma_args = <<>>
    /\ trait_gene_set = [cols |-> <<>>, idx |-> <<>>, rows |-> <<>>]
    /\ gene_set_text = <<>>
    /\ gene_set_out = <<>>
    /\ spc = "idle"
    /\ serr = "none"
    /\ tree = <<>>
    /\ ancestries = <<>>
    /\ walk_i = 0
    /\ found_sets = <<>>
    /\ usable = <<>>
    /\ upc = "idle"
    /\ uerr = "none"
    /\ tool_call = [op |-> "idle"]
    /\ call_no_arg_flags = <<>>
    /\ call_yes_arg_flags = <<>>
    /\ tool_calls = <<>>
    /\ tool_files = {}
    /\ tool_out = <<>>
    /\ tpc = "idle"
    /\ terr = "none"

\* keep_bfiles, to_merge and the merge list
M_Start ==
    /\ mpc = "start"
    /\ IF ~keep.given
       THEN /\ merr' = "TypeError"
            /\ mpc' = "raised"
            /\ UNCHANGED <<bfile_sets, to_merge, files>>
       ELSE IF ~RegexValid(ToKeep(keep.patterns), 1, "none")
       THEN \* re.compile(...) of keep_bfiles raises re.error
            /\ merr' = "re.error"
            /\ mpc' = "raised"
            /\ UNCHANGED <<bfile_sets, to_merge, files>>
       ELSE LET kept == keep_bfiles(bfile_sets, keep.patterns)
            IN /\ bfile_sets' = kept
               /\ to_merge' = kept
               /\ files' = FileWrite(files, MergeListFile, SubSeq(kept, 2, Len(kept)))
               /\ mpc' = "attempt"
               /\ merr' = merr
    /\ UNCHANGED <<keep, output_prefix, PATH, flags, prune_flags,
                   merge_problem_variants, prune_i, plink_calls, merged>>
    /\ UNCHANGED <<gwasVars, magmaVars, discVars, toolVars>>

\* the first merge invocation, inside the try block
M_AttemptMerge ==
    /\ mpc = "attempt"
    /\ IF Len(to_merge) = 0
       THEN /\ merr' = "IndexError"
            /\ mpc' = "raised"
            /\ UNCHANGED <<flags, plink_calls, files>>
       ELSE /\ flags' = MergeFlags
            /\ run_plink(<<kMakeBed>>, MergeFlags, "check", "except")
    /\ UNCHANGED <<bfile_sets, keep, output_prefix, PATH, to_merge, prune_flags,
                   merge_problem_variants, prune_i, merged>>
    /\ UNCHANGED <<gwasVars, magmaVars, discVars, toolVars>>

\* prune_problem_variants up to the exclusion list
M_PruneExtract ==
    /\ mpc = "except"
    /\ IF HardMissnp \notin DOMAIN files
       THEN /\ merr' = "FileNotFoundError"
            /\ mpc' = "raised"
            /\ UNCHANGED <<files, merge_problem_variants, prune_i>>
       ELSE LET renamed == FileRename(files, HardMissnp, FailedMissnp)
                variants == ExtractVariants(files[HardMissnp])
            IN /\ merge_problem_variants' = variants
               /\ IF HardLog \notin DOMAIN renamed
                  THEN /\ files' = renamed
                       /\ merr' = "FileNotFoundError"
                       /\ mpc' = "raised"
                       /\ UNCHANGED prune_i
                  ELSE /\ files' = FileWrite(FileRename(renamed, HardLog, FailedLog),
                                             ExcludeFile, variants)
                       /\ merr' = merr
                       /\ mpc' = "prune"
                       /\ prune_i' = 1
    /\ UNCHANGED <<bfile_sets, keep, output_prefix, PATH, to_merge, flags,
                   prune_flags, plink_calls, merged>>
    /\ UNCHANGED <<gwasVars, magmaVars, discVars, toolVars>>

\* one turn of the loop of prune_problem_variants
M_PruneOne ==
    /\ mpc = "prune"
    /\ prune_i <= Len(to_merge)
    /\ LET pf == PruneFlags(prune_flags, to_merge[prune_i])
       IN /\ prune_flags' = pf
          /\ run_plink(<<kMakeBed>>, pf,
                       IF prune_i = Len(to_merge) THEN "retry" ELSE "prune", "raised")
    /\ prune_i' = IF mpc' = "raised" THEN prune_i ELSE prune_i + 1
    /\ UNCHANGED <<bfile_sets, keep, output_prefix, PATH, to_merge, flags,
                   merge_problem_variants, merged>>
    /\ UNCHANGED <<gwasVars, magmaVars, discVars, toolVars>>

\* M_RetryMerge with a failed retry handled like the first failure
M_RetryMerge_Again ==
    /\ mpc = "retry"
    /\ flags' = RetryFlags
    /\ run_plink(<<kMakeBed>>, RetryFlags, "check", "except")
    /\ UNCHANGED <<bfile_sets, keep, output_prefix, PATH, to_merge, prune_flags,
                   merge_problem_variants, prune_i, merged>>
    /\ UNCHANGED <<gwasVars, magmaVars, discVars, toolVars>>

\* the retry, inside the except block
M_RetryMerge ==
    /\ mpc = "retry"
    /\ flags' = RetryFlags
    /\ run_plink(<<kMakeBed>>, RetryFlags, "check", "raised")
    /\ UNCHANGED <<bfile_sets, keep, output_prefix, PATH, to_merge, prune_flags,
                   merge_problem_variants, prune_i, merged>>
    /\ UNCHANGED <<gwasVars, magmaVars, discVars, toolVars>>

MergedPaths ==
    <<Path(WorkDir, <<output_prefix, ".bed">>),
      Path(WorkDir, <<output_prefix, ".bim">>),
      Path(WorkDir, <<output_prefix, ".fam">>)>>

\* M_CheckOutputs asserting the .bed file alone
M_CheckOutputs_BedOnly ==
    /\ mpc = "check"
    /\ IF MergedPaths[1].name \in DOMAIN files
       THEN mpc' = "returned" /\ merged' = MergedPaths /\ merr' = merr
       ELSE mpc' = "raised" /\ merr' = "AssertionError" /\ merged' = merged
    /\ UNCHANGED <<bfile_sets, keep, output_prefix, PATH, files, to_merge, flags,
                   prune_flags, merge_problem_variants, prune_i, plink_calls>>
    /\ UNCHANGED <<gwasVars, magmaVars, discVars, toolVars>>

\* the three existence assertions and the return
M_CheckOutputs ==
    /\ mpc = "check"
    /\ IF \A i \in 1..3 : MergedPaths[i].name \in DOMAIN files
       THEN mpc' = "returned" /\ merged' = MergedPaths /\ merr' = merr
       ELSE mpc' = "raised" /\ merr' = "AssertionError" /\ merged' = merged
    /\ UNCHANGED <<bfile_sets, keep, output_prefix, PATH, files, to_merge, flags,
                   prune_flags, merge_problem_variants, prune_i, plink_calls>>
    /\ UNCHANGED <<gwasVars, magmaVars, discVars, toolVars>>

MergeNext ==
    \/ M_Start
    \/ M_AttemptMerge
    \/ M_PruneExtract
    \/ M_PruneOne
    \/ M_RetryMerge
    \/ M_CheckOutputs

(***************************************************************************)
(* gwas_processing.utils.munge_gwas                                        *)
(*                                                                         *)
(* A cell is [t, na, v]: its dtype, whether it is missing, its value.  A   *)
(* p-value is counted in units of 1e-308.  A data frame is its column      *)
(* names, its index labels and its rows.                                   *)
(***************************************************************************)
StrCell(v) == [t |-> "str", na |-> FALSE, v |-> v]
IntCell(v) == [t |-> "int", na |-> FALSE, v |-> v]
FloatCell(v) == [t |-> "float", na |-> FALSE, v |-> v]
NaStr == [t |-> "str", na |-> TRUE, v |-> <<>>]
NaFloat == [t |-> "float", na |-> TRUE, v |-> 0]

\* 9.9999999999999999e-307 is the double 1e-306: 100 units of 1e-308
PvalFloor == 100

\* None, for an Optional[str] argument (as falsy as the empty string)
None == <<>>

cSNP == <<"S", "N", "P">>
cRsid == <<"r", "s", "i", "d">>
cCHR == <<"C", "H", "R">>
cBpLower == <<"b", "p">>
cBP == <<"B", "P">>
cRefLower == <<"r", "e", "f">>
cREF == <<"R", "E", "F">>
cEffect == <<"e", "f", "f", "e", "c", "t">>
cEA == <<"E", "A">>
cP == <<"P">>
cN == <<"N">>

\* header lines of summary-statistics files; the columns hold, in this order,
\* identifier, chromosome, position, reference allele, effect allele, p-value
\* and (with a seventh column) sample size
GwasHeaders ==
    {<<cSNP, cCHR, cBpLower, cRefLower, cEffect, cP>>,
     <<cSNP, cCHR, cBpLower, cRefLower, cEffect, cP, cN>>,
     <<cRsid, cCHR, cBP, cREF, cEA, cP>>}

GwasArgs(variant_id, pval, n, chromosome, bp, ref_allele, effect_allele) ==
    [variant_id |-> variant_id, pval |-> pval, n |-> n, chromosome |-> chromosome,
     bp |-> bp, ref_allele |-> ref_allele, effect_allele |-> effect_allele]

\* the keyword arguments munge_gwas is called with
GwasArgChoices ==
    {GwasArgs(None, None, None, None, None, None, None),
     GwasArgs(cSNP, None, None, None, None, None, None),
     GwasArgs(cRsid, cP, None, cCHR, cBP, cREF, cEA),
     GwasArgs(cRsid, None, None, None, None, None, cEA)}

\* the p-values of the input, in units of 1e-308, and a missing one
GwasPvals == {NaFloat, FloatCell(0), FloatCell(50), FloatCell(100), FloatCell(200)}

\* row i of the file, given its identifier, effect allele and p-value cells
GwasRow(i, id, effect, p, width) ==
    LET full == <<id, StrCell(IntToStr(i)), IntCell(5 * i + 2), StrCell(<<"A">>),
                  effect, p, IntCell(90)>>
    IN SubSeq(full, 1, width)

GwasRowChoices(i, width) ==
    {GwasRow(i, id, effect, p, width) :
        id \in {NaStr, StrCell(<<"r", "s", "1">>)},
        effect \in {NaStr, StrCell(<<"G">>)},
        p \in GwasPvals}

\* the tables of 0..MaxRows rows under a header of the given width
GwasTables(width) ==
    UNION {{t \in [1..k -> UNION {GwasRowChoices(i, width) : i \in 1..k}] :
               \A i \in 1..k : t[i] \in GwasRowChoices(i, width)} : k \in 0..MaxRows}


\* the keys of column_patterns, in insertion order
PatternKeys == <<"pval", "variant_id", "n", "chr", "bp", "ref_allele", "effect_allele">>

\* base.?pair found anywhere in the column name
BasePairIn(column) ==
    \E i \in 1..Len(column) :
        /\ MatchAt(column, <<"b", "a", "s", "e">>, i)
        /\ \/ MatchAt(column, <<"p", "a", "i", "r">>, i + 4)
           \/ (i + 4 <= Len(column) /\ MatchAt(column, <<"p", "a", "i", "r">>, i + 5))

\* column_patterns[key].search(column) for the compiled pattern of each key
PatternSearch(key, column) ==
    CASE key = "pval" -> StartsWith(Lower(column), <<"p">>)
      [] key = "variant_id" ->
            \/ StartsWith(Lower(column), <<"s", "n", "p">>)
            \/ Contains(Lower(column), <<"v", "a", "r", "i", "a", "n", "t">>)
      [] key = "n" -> Lower(column) = <<"n">>
      [] key = "chr" -> StartsWith(Lower(column), <<"c", "h", "r">>)
      [] key = "bp" -> StartsWith(column, <<"b", "p">>) \/ BasePairIn(column)
      [] key = "ref_allele" ->
            \/ StartsWith(column, <<"r", "e", "f">>)
            \/ Contains(column, <<"o", "t", "h", "e", "r">>)
            \/ Contains(column, <<"m", "a", "j", "o", "r">>)
      [] key = "effect_allele" ->
            \/ StartsWith(column, <<"e", "f", "f", "e", "c", "t">>)
            \/ Contains(column, <<"m", "i", "n", "o", "r">>)

\* the argument that overrides the pattern of a key
ArgOf(args, key) ==
    CASE key = "pval" -> args.pval
      [] key = "variant_id" -> args.variant_id
      [] key = "n" -> args.n
      [] key = "chr" -> args.chromosome
      [] key = "bp" -> args.bp
      [] key = "ref_allele" -> args.ref_allele
      [] key = "effect_allele" -> args.effect_allele

\* column_patterns after the loop over the header: a key holds its override,
\* or the first column its pattern finds, or stays a compiled pattern
ResolveColumn(args, header, key) ==
    IF ArgOf(args, key) # None
    THEN [is_str |-> TRUE, name |-> ArgOf(args, key)]
    ELSE IF \E i \in 1..Len(header) : PatternSearch(key, header[i])
    THEN LET i == CHOOSE k \in 1..Len(header) :
                      /\ PatternSearch(key, header[k])
                      /\ \A m \in 1..(k - 1) : ~PatternSearch(key, header[m])
         IN [is_str |-> TRUE, name |-> header[i]]
    ELSE [is_str |-> FALSE, name |-> <<>>]

ResolveColumns(args, header) ==
    [key \in Range(PatternKeys) |-> ResolveColumn(args, header, key)]

\* the positions 1..n in order
Indices(n) == [i \in 1..n |-> i]

\* pd.read_csv(gwas_pval, usecols=usecols): the named columns, in file order,
\* under the default index 0, 1, ...
ReadCsv(header, rows, usecols) ==
    LET picked == SelectSeq(Indices(Len(header)), LAMBDA i : header[i] \in Range(usecols))
    IN [cols |-> [j \in 1..Len(picked) |-> header[picked[j]]],
        idx |-> [r \in 1..Len(rows) |-> r - 1],
        rows |-> [r \in 1..Len(rows) |-> [j \in 1..Len(picked) |-> rows[r][picked[j]]]]]

EmptyFrame == [cols |-> <<>>, idx |-> <<>>, rows |-> <<>>]

HasCol(df, name) == \E i \in 1..Len(df.cols) : df.cols[i] = name

ColPos(df, name) == CHOOSE i \in 1..Len(df.cols) : df.cols[i] = name

\* pd.concat([left, right], axis=1) of two frames over the same index
ConcatCols(left, right) ==
    [cols |-> left.cols \o right.cols,
     idx |-> left.idx,
     rows |-> [r \in 1..Len(left.rows) |-> left.rows[r] \o right.rows[r]]]

\* one value of x.values.astype(str)
CellStr(c) ==
    IF c.na THEN (IF c.t = "int"
                  THEN <<"<", "N", "A", ">">>
                  ELSE <<"n", "a", "n">>)
    ELSE IF c.t = "int" THEN IntToStr(c.v)
    ELSE c.v

\* "_".join(x.values.astype(str)) over the filler columns of one row
FillerId(df, row, filler_cols) ==
    Join([k \in 1..Len(filler_cols) |-> CellStr(row[ColPos(df, filler_cols[k])])],
         <<"_">>)

\* gwas.loc[null_id_mask, variant_id] = the filler identifiers
FillMissingIds(df, id_col, filler_cols) ==
    [df EXCEPT !.rows =
        [r \in 1..Len(df.rows) |->
            IF df.rows[r][ColPos(df, id_col)].na
            THEN [df.rows[r] EXCEPT ![ColPos(df, id_col)] =
                      StrCell(FillerId(df, df.rows[r], filler_cols))]
            ELSE df.rows[r]]]

\* DropMissingEffect with the mask never applied
DropMissingEffect_KeepAll(df, effect_col) == df

\* gwas[~gwas[effect_allele].isna()]
DropMissingEffect(df, effect_col) ==
    LET kept == SelectSeq(Indices(Len(df.rows)),
                          LAMBDA r : ~df.rows[r][ColPos(df, effect_col)].na)
    IN [cols |-> df.cols,
        idx |-> [j \in 1..Len(kept) |-> df.idx[kept[j]]],
        rows |-> [j \in 1..Len(kept) |-> df.rows[kept[j]]]]

\* one p-value under the floor: NaN < floor is False
ClampCell(c) ==
    IF ~c.na /\ c.v < PvalFloor THEN [c EXCEPT !.v = PvalFloor] ELSE c

\* gwas.loc[gwas[pval] < floor, pval] = floor
ClampPvalues(df, pval_col) ==
    [df EXCEPT !.rows =
        [r \in 1..Len(df.rows) |->
            [df.rows[r] EXCEPT ![ColPos(df, pval_col)] =
                ClampCell(df.rows[r][ColPos(df, pval_col)])]]]

\* gwas[[...]]: the listed columns, in the listed order
SelectCols(df, names) ==
    [cols |-> names,
     idx |-> df.idx,
     rows |-> [r \in 1..Len(df.rows) |->
                  [k \in 1..Len(names) |-> df.rows[r][ColPos(df, names[k])]]]]

\* every name is a resolved column of the header / of the frame
AllInHeader(header, specs) ==
    \A k \in 1..Len(specs) :
        specs[k].is_str /\ \E i \in 1..Len(header) : header[i] = specs[k].name

AllInFrame(df, specs) ==
    \A k \in 1..Len(specs) : specs[k].is_str /\ HasCol(df, specs[k].name)

Names(specs) == [k \in 1..Len(specs) |-> specs[k].name]

GwasInit ==
    /\ gwas_header \in GwasHeaders
    /\ gwas_rows \in GwasTables(Len(gwas_header))
    /\ gwas_args \in GwasArgChoices
    /\ column_patterns = <<>>
    /\ gwas = EmptyFrame
    /\ gpc = "start"
    /\ gerr = "none"
    /\ bfile_sets = <<>>
    /\ keep = [given |-> FALSE, patterns |-> <<>>]
    /\ output_prefix = "merge"
    /\ PATH = <<>>
    /\ files = <<>>
    /\ to_merge = <<>>
    /\ flags = <<>>
    /\ prune_flags = <<>>
    /\ merge_problem_variants = <<>>
    /\ prune_i = 0
    /\ plink_calls = <<>>
    /\ mpc = "idle"
    /\ merr = "none"
    /\ merged = <<>>
    /\ magma_header = <<>>
    /\ magma_rows = <<>>
    /\ magma_args = <<>>
    /\ trait_gene_set = EmptyFrame
    /\ gene_set_text = <<>>
    /\ gene_set_out = <<>>
    /\ spc = "idle"
    /\ serr = "none"
    /\ tree = <<>>
    /\ ancestries = <<>>
    /\ walk_i = 0
    /\ found_sets = <<>>
    /\ usable = <<>>
    /\ upc = "idle"
    /\ uerr = "none"
    /\ tool_call = [op |-> "idle"]
    /\ call_no_arg_flags = <<>>
    /\ call_yes_arg_flags = <<>>
    /\ tool_calls = <<>>
    /\ tool_files = {}
    /\ tool_out = <<>>
    /\ tpc = "idle"
    /\ terr = "none"

\* column_patterns, the loop over the header and the three assertions
G_Resolve ==
    /\ gpc = "start"
    /\ LET cp == ResolveColumns(gwas_args, gwas_header)
       IN /\ column_patterns' = cp
          /\ IF cp["pval"].is_str /\ cp["variant_id"].is_str /\ cp["effect_allele"].is_str
             THEN gpc' = "load" /\ gerr' = gerr
             ELSE gpc' = "raised" /\ gerr' = "AssertionError"
    /\ UNCHANGED <<gwas_header, gwas_rows, gwas_args, gwas>>
    /\ UNCHANGED <<mergeVars, magmaVars, discVars, toolVars>>

\* core_cols, the sample-size column, and the first read of the file
G_LoadCore ==
    /\ gpc = "load"
    /\ LET core_cols == <<column_patterns["pval"], column_patterns["variant_id"],
                          column_patterns["effect_allele"]>>
       IN IF column_patterns["n"].is_str
          THEN \* core_cols[column_patterns["n"]] = "Int64" indexes a list by a str
               gpc' = "raised" /\ gerr' = "TypeError" /\ gwas' = gwas
          ELSE IF ~AllInHeader(gwas_header, core_cols)
          THEN gpc' = "raised" /\ gerr' = "ValueError" /\ gwas' = gwas
          ELSE /\ gwas' = ReadCsv(gwas_header, gwas_rows, Names(core_cols))
               /\ gpc' = "backfill"
               /\ gerr' = gerr
    /\ UNCHANGED <<gwas_header, gwas_rows, gwas_args, column_patterns>>
    /\ UNCHANGED <<mergeVars, magmaVars, discVars, toolVars>>

\* the missing-identifier test on gwas[variant_id] and the backfill
G_Backfill ==
    /\ gpc = "backfill"
    /\ LET filler_cols == <<column_patterns["chr"], column_patterns["bp"],
                            column_patterns["ref_allele"]>>
           id_col == column_patterns["variant_id"].name
       IN IF ~HasCol(gwas, gwas_args.variant_id)
          THEN gpc' = "raised" /\ gerr' = "KeyError" /\ gwas' = gwas
          ELSE IF ~\E r \in 1..Len(gwas.rows) :
                      gwas.rows[r][ColPos(gwas, gwas_args.variant_id)].na
          THEN gpc' = "filter" /\ gerr' = gerr /\ gwas' = gwas
          ELSE IF ~AllInHeader(gwas_header, filler_cols)
          THEN gpc' = "raised" /\ gerr' = "ValueError" /\ gwas' = gwas
          ELSE LET extension == ReadCsv(gwas_header, gwas_rows, Names(filler_cols))
                   wide == ConcatCols(gwas, extension)
               IN /\ gwas' = FillMissingIds(wide, id_col,
                                 Names(filler_cols)
                                 \o <<column_patterns["effect_allele"].name>>)
                  /\ gpc' = "filter"
                  /\ gerr' = gerr
    /\ UNCHANGED <<gwas_header, gwas_rows, gwas_args, column_patterns>>
    /\ UNCHANGED <<mergeVars, magmaVars, discVars, toolVars>>

\* the rows without an effect allele are removed
G_Filter ==
    /\ gpc = "filter"
    /\ gwas' = DropMissingEffect(gwas, column_patterns["effect_allele"].name)
    /\ gpc' = "clamp"
    /\ UNCHANGED <<gwas_header, gwas_rows, gwas_args, column_patterns, gerr>>
    /\ UNCHANGED <<mergeVars, magmaVars, discVars, toolVars>>

\* the p-values under the floor are raised to it
G_Clamp ==
    /\ gpc = "clamp"
    /\ gwas' = ClampPvalues(gwas, column_patterns["pval"].name)
    /\ gpc' = "project"
    /\ UNCHANGED <<gwas_header, gwas_rows, gwas_args, column_patterns, gerr>>
    /\ UNCHANGED <<mergeVars, magmaVars, discVars, toolVars>>

\* the four output columns, and the return
G_Project ==
    /\ gpc = "project"
    /\ LET out_cols == <<column_patterns["variant_id"], column_patterns["chr"],
                         column_patterns["bp"], column_patterns["pval"]>>
       IN IF AllInFrame(gwas, out_cols)
          THEN gwas' = SelectCols(gwas, Names(out_cols)) /\ gpc' = "returned" /\ gerr' = gerr
          ELSE gwas' = gwas /\ gpc' = "raised" /\ gerr' = "KeyError"
    /\ UNCHANGED <<gwas_header, gwas_rows, gwas_args, column_patterns>>
    /\ UNCHANGED <<mergeVars, magmaVars, discVars, toolVars>>

GwasNext ==
    \/ G_Resolve
    \/ G_LoadCore
    \/ G_Backfill
    \/ G_Filter
    \/ G_Clamp
    \/ G_Project


(***************************************************************************)
(* score_cells.utils.munge_magma                                           *)
(*                                                                         *)
(* A column label is a header name or, without a header, a position.       *)
(***************************************************************************)
StrLabel(s) == [t |-> "str", s |-> s, i |-> 0]
IntLabel(i) == [t |-> "int", s |-> <<>>, i |-> i]

LabelEq(a, b) == a = b

cGENE == <<"G", "E", "N", "E">>
cID == <<"I", "D">>
cGeneA == <<"G", "e", "n", "e", "A">>

\* the gene identifier of row i of the gene table
GeneIds == <<<<"A">>, <<"B">>, <<"C">>, <<"D">>, <<"E">>>>

\* significance values of the gene table (tenths)
GenePvals == {1, 2, 3}

\* gene tables of 0..MaxGenes rows: row i is <<GeneIds[i], its P>>
GeneTables ==
    UNION {{[i \in 1..k |-> <<StrCell(GeneIds[i]), FloatCell(ps[i])>>] :
               ps \in [1..k -> GenePvals]} : k \in 0..MaxGenes}

\* the header line of the gene table, when it has one
GeneHeaders == {<<cGENE, cP>>, <<cID, cP>>}

\* gene_name_map: None, or a dict from identifiers to names
GeneNameMaps == {<<>>, <<<<<<"A">>, cGeneA>>>>}

MagmaArgChoices ==
    {[header |-> h, gene_column |-> g, pvalue_column |-> p, num_genes |-> k,
      gene_name_map |-> m] :
        h \in BOOLEAN,
        g \in {StrLabel(cGENE), StrLabel(cID), IntLabel(0)},
        p \in {StrLabel(cP), IntLabel(1)},
        k \in 0..MaxN,
        m \in GeneNameMaps}


\* pd.read_csv of the gene table: header names, or positions with header=None
ReadGenes(header, rows, has_header) ==
    [cols |-> IF has_header
              THEN [j \in 1..Len(header) |-> StrLabel(header[j])]
              ELSE [j \in 1..2 |-> IntLabel(j - 1)],
     idx |-> [r \in 1..Len(rows) |-> r - 1],
     rows |-> rows]

\* rename(columns={gene_column: "GENE", pvalue_column: "P"}, inplace=True)
RenameCols(df, gene_column, pvalue_column) ==
    [df EXCEPT !.cols =
        [j \in 1..Len(df.cols) |->
            IF LabelEq(df.cols[j], pvalue_column) THEN StrLabel(cP)
            ELSE IF LabelEq(df.cols[j], gene_column) THEN StrLabel(cGENE)
            ELSE df.cols[j]]]

HasLabel(df, label) == \E j \in 1..Len(df.cols) : LabelEq(df.cols[j], label)

LabelPos(df, label) == CHOOSE j \in 1..Len(df.cols) : LabelEq(df.cols[j], label)

\* Series.replace(gene_name_map): a key of the dict becomes its value
ReplaceCell(c, name_map) ==
    IF DictHas(name_map, c.v) THEN [c EXCEPT !.v = DictGet(name_map, c.v)] ELSE c

\* trait_gene_set[gene_column].replace(gene_name_map, inplace=True)
ReplaceGenes(df, gene_column, name_map) ==
    [df EXCEPT !.rows =
        [r \in 1..Len(df.rows) |->
            [df.rows[r] EXCEPT ![LabelPos(df, gene_column)] =
                ReplaceCell(df.rows[r][LabelPos(df, gene_column)], name_map)]]]

\* the orders sort_values(by=["P"]) may leave the rows in: ascending by P;
\* the default quicksort does not decide the order of rows of equal P
SortOrders(df) ==
    LET n == Len(df.rows)
        key == [r \in 1..n |-> df.rows[r][LabelPos(df, StrLabel(cP))].v]
    IN {order \in [1..n -> 1..n] :
           /\ \A a, b \in 1..n : a # b => order[a] # order[b]
           /\ \A a \in 1..(n - 1) : key[order[a]] <= key[order[a + 1]]}

\* sort_values(by=["P"], inplace=True): the rows keep their index labels
SortByP(df, order) ==
    [cols |-> df.cols,
     idx |-> [j \in 1..Len(order) |-> df.idx[order[j]]],
     rows |-> [j \in 1..Len(order) |-> df.rows[order[j]]]]

Increasing(idx) == \A i \in 1..(Len(idx) - 1) : idx[i] <= idx[i + 1]

Decreasing(idx) == \A i \in 1..(Len(idx) - 1) : idx[i] >= idx[i + 1]

\* whether .loc[:label] raises KeyError: the label is absent from an index
\* that is neither increasing nor decreasing
LocRaises(idx, label) ==
    /\ label \notin Range(idx)
    /\ ~Increasing(idx)
    /\ ~Decreasing(idx)

\* the number of leading rows .loc[:label] selects: through the position of
\* the label when it is in the index, else by binary search in a sorted index
LocStop(idx, label) ==
    IF label \in Range(idx)
    THEN CHOOSE j \in 1..Len(idx) : idx[j] = label
    ELSE IF Increasing(idx)
    THEN Cardinality({j \in 1..Len(idx) : idx[j] <= label})
    ELSE Len(idx) - Cardinality({j \in 1..Len(idx) : idx[j] < label})

\* ",".join(trait_gene_set.loc[:num_genes, "GENE"])
TopGenes(df, num_genes) ==
    LET stop == LocStop(df.idx, num_genes)
    IN Join([j \in 1..stop |-> df.rows[j][LabelPos(df, StrLabel(cGENE))].v], <<",">>)

cTRAIT == <<"T", "R", "A", "I", "T">>
cGENESET == <<"G", "E", "N", "E", "S", "E", "T">>

\* the trait argument
Trait == <<"t", "1">>

\* the table is read, and its gene and p-value columns renamed
S_Load ==
    /\ spc = "start"
    /\ IF magma_args.header
       THEN /\ trait_gene_set' = RenameCols(ReadGenes(magma_header, magma_rows, TRUE),
                                            magma_args.gene_column,
                                            magma_args.pvalue_column)
            /\ spc' = "remap"
            /\ serr' = serr
       ELSE IF Len(magma_rows) = 0
       THEN \* read_csv(header=None) of a file without a line: no columns to parse
            /\ trait_gene_set' = trait_gene_set
            /\ spc' = "raised"
            /\ serr' = "EmptyDataError"
       ELSE /\ trait_gene_set' = ReadGenes(magma_header, magma_rows, FALSE)
            /\ IF magma_args.gene_column.t = "int" /\ magma_args.pvalue_column.t = "int"
               THEN \* rename(...) without inplace=True: its result is dropped
                    spc' = "remap" /\ serr' = serr
               ELSE spc' = "raised" /\ serr' = "AssertionError"
    /\ UNCHANGED <<magma_header, magma_rows, magma_args, gene_set_text, gene_set_out>>
    /\ UNCHANGED <<mergeVars, gwasVars, discVars, toolVars>>

\* the gene identifiers are replaced by their names
S_Remap ==
    /\ spc = "remap"
    /\ IF Len(magma_args.gene_name_map) = 0
       THEN spc' = "select" /\ serr' = serr /\ trait_gene_set' = trait_gene_set
       ELSE IF ~HasLabel(trait_gene_set, magma_args.gene_column)
       THEN spc' = "raised" /\ serr' = "KeyError" /\ trait_gene_set' = trait_gene_set
       ELSE /\ trait_gene_set' = ReplaceGenes(trait_gene_set, magma_args.gene_column,
                                              magma_args.gene_name_map)
            /\ spc' = "select"
            /\ serr' = serr
    /\ UNCHANGED <<magma_header, magma_rows, magma_args, gene_set_text, gene_set_out>>
    /\ UNCHANGED <<mergeVars, gwasVars, discVars, toolVars>>

\* the sort by P, the slice up to num_genes and the join
S_Select ==
    /\ spc = "select"
    /\ IF ~HasLabel(trait_gene_set, StrLabel(cP))
       THEN /\ spc' = "raised" /\ serr' = "KeyError"
            /\ UNCHANGED <<trait_gene_set, gene_set_text>>
       ELSE \E order \in SortOrders(trait_gene_set) :
               LET sorted == SortByP(trait_gene_set, order)
               IN /\ trait_gene_set' = sorted
                  /\ IF \/ ~HasLabel(sorted, StrLabel(cGENE))
                        \/ LocRaises(sorted.idx, magma_args.num_genes)
                     THEN /\ spc' = "raised"
                          /\ serr' = "KeyError"
                          /\ gene_set_text' = gene_set_text
                     ELSE /\ gene_set_text' = TopGenes(sorted, magma_args.num_genes)
                          /\ spc' = "write"
                          /\ serr' = serr
    /\ UNCHANGED <<magma_header, magma_rows, magma_args, gene_set_out>>
    /\ UNCHANGED <<mergeVars, gwasVars, discVars, toolVars>>

\* the two lines of the .gs file, and the return
S_Write ==
    /\ spc = "write"
    /\ gene_set_out' = <<<<cTRAIT, cGENESET>>, <<Trait, gene_set_text>>>>
    /\ spc' = "returned"
    /\ UNCHANGED <<magma_header, magma_rows, magma_args, trait_gene_set,
                   gene_set_text, serr>>
    /\ UNCHANGED <<mergeVars, gwasVars, discVars, toolVars>>

MagmaNext ==
    \/ S_Load
    \/ S_Remap
    \/ S_Select
    \/ S_Write

MagmaInit ==
    /\ magma_args \in MagmaArgChoices
    /\ magma_header \in (IF magma_args.header THEN GeneHeaders ELSE {<<>>})
    /\ magma_rows \in GeneTables
    /\ trait_gene_set = EmptyFrame
    /\ gene_set_text = <<>>
    /\ gene_set_out = <<>>
    /\ spc = "start"
    /\ serr = "none"
    /\ bfile_sets = <<>>
    /\ keep = [given |-> FALSE, patterns |-> <<>>]
    /\ output_prefix = "merge"
    /\ PATH = <<>>
    /\ files = <<>>
    /\ to_merge = <<>>
    /\ flags = <<>>
    /\ prune_flags = <<>>
    /\ merge_problem_variants = <<>>
    /\ prune_i = 0
    /\ plink_calls = <<>>
    /\ mpc = "idle"
    /\ merr = "none"
    /\ merged = <<>>
    /\ gwas_header = <<>>
    /\ gwas_rows = <<>>
    /\ gwas_args = <<>>
    /\ column_patterns = <<>>
    /\ gwas = EmptyFrame
    /\ gpc = "idle"
    /\ gerr = "none"
    /\ tree = <<>>
    /\ ancestries = <<>>
    /\ walk_i = 0
    /\ found_sets = <<>>
    /\ usable = <<>>
    /\ upc = "idle"
    /\ uerr = "none"
    /\ tool_call = [op |-> "idle"]
    /\ call_no_arg_flags = <<>>
    /\ call_yes_arg_flags = <<>>
    /\ tool_calls = <<>>
    /\ tool_files = {}
    /\ tool_out = <<>>
    /\ tpc = "idle"
    /\ terr = "none"

(***************************************************************************)
(* make_reference.utils.use_bfiles                                         *)
(*                                                                         *)
(* The tree under bfile_dir is the files os.walk yields, in its order:     *)
(* each is the directory it was found in and its name.  A path is the      *)
(* text of str(path); the mapping under construction is a dictionary from  *)
(* the bfile prefix to its BED, BIM, FAM and ANCESTRY entries.             *)
(***************************************************************************)
MaxFiles == 3

\* Ancestry: the values of the enumeration
AncestryValues ==
    {<<"a", "f", "r">>, <<"a", "m", "r">>, <<"e", "a", "s">>,
     <<"e", "u", "r">>, <<"s", "a", "s">>}

\* BFileType: the values of the enumeration
BFileTypeValues ==
    {<<".", "b", "e", "d">>, <<".", "b", "i", "m">>,
     <<".", "f", "a", "m">>}

Letters == LowerLetters \cup DOMAIN UpperToLower

\* the bfile_dir arguments of use_bfiles
WalkDirs == {<<"r", "e", "f">>, <<"r", "e", "f", "/">>, <<".">>}

\* os.path.join(a, b) of a relative b
OsPathJoin(a, b) ==
    IF Len(a) > 0 /\ a[Len(a)] = "/" THEN a \o b ELSE a \o <<"/">> \o b

\* the directories os.walk(bfile_dir) yields as root, in its order: bfile_dir
\* as it was given, then its subdirectory
WalkRoots(bfile_dir) == <<bfile_dir, OsPathJoin(bfile_dir, <<"e", "u", "r">>)>>

\* the files the tree under bfile_dir may hold
WalkFiles(bfile_dir) ==
    {[root |-> WalkRoots(bfile_dir)[1], file |-> name] :
        name \in {<<"p", "a", "n", "e", "l", ".", "a", "f", "r", ".", "b", "e", "d">>,
                  <<"p", "a", "n", "e", "l", ".", "a", "f", "r", ".", "b", "i", "m">>,
                  <<"p", "a", "n", "e", "l", ".", "a", "f", "r", ".", "f", "a", "m">>,
                  <<"p", "a", "n", "e", "l", ".", "e", "u", "r", ".", "b", "e", "d">>,
                  <<"K", "G", "_", "A", "F", "R", ".", "f", "a", "m">>,
                  <<"n", "o", "t", "e", "s", ".", "t", "x", "t">>,
                  <<"p", "a", "n", "e", "l", ".", "a", "f", "r", ".", "l", "o", "g">>,
                  <<"p", "a", "n", "e", "l", ".", "b", "e", "d">>,
                  <<"s", "a", "f", "r", ".", "b", "i", "m">>}}
    \cup {[root |-> WalkRoots(bfile_dir)[2], file |-> <<"k", "g", ".", "b", "e", "d">>]}

\* os.walk yields the files directory by directory
WalkOrdered(bfile_dir, t) ==
    \A i, j \in 1..Len(t) :
        (i < j /\ t[i].root = WalkRoots(bfile_dir)[2]) => t[j].root = t[i].root

\* the trees of the walk
WalkTrees ==
    UNION {{t \in DistinctSeqs(WalkFiles(d), MaxFiles) : WalkOrdered(d, t)} : d \in WalkDirs}

\* the allow-lists a caller may pass as *args
AncestryArgs ==
    {<<>>, <<<<"a", "f", "r">>>>, <<<<"e", "u", "r">>>>,
     <<<<"a", "f", "r">>, <<"e", "u", "r">>>>}

\* the last position of character c in s, 0 when it has none
LastIndexOf(s, c) ==
    IF \E i \in 1..Len(s) : s[i] = c
    THEN CHOOSE i \in 1..Len(s) : s[i] = c /\ \A k \in (i + 1)..Len(s) : s[k] # c
    ELSE 0

\* the pieces of s between its "/" characters
RECURSIVE PathParts(_)
PathParts(s) ==
    IF \E k \in 1..Len(s) : s[k] = "/"
    THEN LET i == CHOOSE k \in 1..Len(s) : s[k] = "/" /\ \A m \in 1..(k - 1) : s[m] # "/"
         IN <<SubSeq(s, 1, i - 1)>> \o PathParts(SubSeq(s, i + 1, Len(s)))
    ELSE <<s>>

\* str(Path(s)): the "/" characters at the front are the root ("//" when
\* they are two, "/" otherwise), the empty and the "." components are
\* dropped, and a path left with nothing is "."
PathNormalize(s) ==
    LET parts == SelectSeq(PathParts(s), LAMBDA c : c # <<>> /\ c # <<".">>)
        lead == Cardinality({k \in 1..Len(s) : \A m \in 1..k : s[m] = "/"})
        anchor == IF lead = 0 THEN <<>>
                  ELSE IF lead = 2 THEN <<"/", "/">>
                  ELSE <<"/">>
    IN IF lead = 0 /\ Len(parts) = 0 THEN <<".">>
       ELSE anchor \o Join(parts, <<"/">>)

\* pathlib: Path.name, Path.parent, Path.suffix and Path.stem of the text of
\* a path
PathName(p) == SubSeq(p, LastIndexOf(p, "/") + 1, Len(p))

PathParent(p) ==
    LET i == LastIndexOf(p, "/")
    IN IF i = 0 THEN <<".">>
       ELSE IF \A k \in 1..i : p[k] = "/" THEN SubSeq(p, 1, i)
       ELSE SubSeq(p, 1, i - 1)

PathSuffix(p) ==
    LET name == PathName(p)
        i == LastIndexOf(name, ".")
    IN IF 1 < i /\ i < Len(name) THEN SubSeq(name, i, Len(name)) ELSE <<>>

PathStem(p) ==
    LET name == PathName(p)
        i == LastIndexOf(name, ".")
    IN IF 1 < i /\ i < Len(name) THEN SubSeq(name, 1, i - 1) ELSE name

\* str(Path(f"{root}/{file}"))
WalkPath(f) == PathNormalize(f.root \o <<"/">> \o f.file)

\* f"{bfile_path.parent}/{bfile_path.stem}"
BfilePrefix(p) == PathParent(p) \o <<"/">> \o PathStem(p)

\* the regular expression of use_bfiles matches at position i: an ancestry
\* code, in any case, with a non-letter character before and after it
AncestryAt(p, i) ==
    /\ i > 1
    /\ i + 3 <= Len(p)
    /\ p[i - 1] \notin Letters
    /\ Lower(SubSeq(p, i, i + 2)) \in AncestryValues
    /\ p[i + 3] \notin Letters

\* re.search(...).group().lower() of the leftmost match; None without match
AncestrySearch(p) ==
    IF \E i \in 1..Len(p) : AncestryAt(p, i)
    THEN LET i == CHOOSE k \in 1..Len(p) :
                      AncestryAt(p, k) /\ \A m \in 1..(k - 1) : ~AncestryAt(p, m)
         IN Lower(SubSeq(p, i, i + 2))
    ELSE None

\* the entry use_bfiles creates for a new prefix
EmptyBfileSet == [BED |-> None, BIM |-> None, FAM |-> None, ANCESTRY |-> None]

\* all(bfile_sets[bfile_prefix].values())
AllValues(rec) ==
    rec.BED # None /\ rec.BIM # None /\ rec.FAM # None /\ rec.ANCESTRY # None

\* the match statement on the bfile type, and the ancestry assignment
StoreBfile(rec, suffix, bfile_path, ancestry) ==
    [BED |-> IF suffix = <<".", "b", "e", "d">> THEN bfile_path ELSE rec.BED,
     BIM |-> IF suffix = <<".", "b", "i", "m">> THEN bfile_path ELSE rec.BIM,
     FAM |-> IF suffix = <<".", "f", "a", "m">> THEN bfile_path ELSE rec.FAM,
     ANCESTRY |-> ancestry]

\* BFileSet.model_validate: the three paths and the ancestry are required
ModelValidates(rec) ==
    /\ rec.BED # None
    /\ rec.BIM # None
    /\ rec.FAM # None
    /\ rec.ANCESTRY \in AncestryValues

DiscoverInit ==
    /\ tree \in WalkTrees
    /\ ancestries \in AncestryArgs
    /\ walk_i = 1
    /\ found_sets = <<>>
    /\ usable = <<>>
    /\ upc = "walk"
    /\ uerr = "none"
    /\ bfile_sets = <<>>
    /\ keep = [given |-> FALSE, patterns |-> <<>>]
    /\ output_prefix = "merge"
    /\ PATH = <<>>
    /\ files = <<>>
    /\ to_merge = <<>>
    /\ flags = <<>>
    /\ prune_flags = <<>>
    /\ merge_problem_variants = <<>>
    /\ prune_i = 0
    /\ plink_calls = <<>>
    /\ mpc = "idle"
    /\ merr = "none"
    /\ merged = <<>>
    /\ gwas_header = <<>>
    /\ gwas_rows = <<>>
    /\ gwas_args = <<>>
    /\ column_patterns = <<>>
    /\ gwas = EmptyFrame
    /\ gpc = "idle"
    /\ gerr = "none"
    /\ magma_header = <<>>
    /\ magma_rows = <<>>
    /\ magma_args = <<>>
    /\ trait_gene_set = EmptyFrame
    /\ gene_set_text = <<>>
    /\ gene_set_out = <<>>
    /\ spc = "idle"
    /\ serr = "none"
    /\ tool_call = [op |-> "idle"]
    /\ call_no_arg_flags = <<>>
    /\ call_yes_arg_flags = <<>>
    /\ tool_calls = <<>>
    /\ tool_files = {}
    /\ tool_out = <<>>
    /\ tpc = "idle"
    /\ terr = "none"

\* one turn of the loop over the files of the tree
U_File ==
    /\ upc = "walk"
    /\ walk_i <= Len(tree)
    /\ LET bfile_path == WalkPath(tree[walk_i])
           suffix == PathSuffix(bfile_path)
           bfile_prefix == BfilePrefix(bfile_path)
           ancestry == AncestrySearch(bfile_path)
       IN IF suffix \notin BFileTypeValues
          THEN \* BFileType(...) raises ValueError: continue
               /\ walk_i' = walk_i + 1
               /\ UNCHANGED <<found_sets, upc, uerr>>
          ELSE IF ancestry = None
          THEN \* ancestry.group() on None: not a ValueError
               /\ upc' = "raised"
               /\ uerr' = "AttributeError"
               /\ UNCHANGED <<found_sets, walk_i>>
          ELSE IF \A k \in 1..Len(ancestries) : ancestries[k] # ancestry
          THEN /\ walk_i' = walk_i + 1
               /\ UNCHANGED <<found_sets, upc, uerr>>
          ELSE IF DictHas(found_sets, bfile_prefix)
                  /\ AllValues(DictGet(found_sets, bfile_prefix))
          THEN \* "\n".join of the paths and the ancestry, not of texts,
               \* raises before the KeyError is built
               /\ upc' = "raised"
               /\ uerr' = "TypeError"
               /\ UNCHANGED <<found_sets, walk_i>>
          ELSE LET rec == IF DictHas(found_sets, bfile_prefix)
                          THEN DictGet(found_sets, bfile_prefix)
                          ELSE EmptyBfileSet
               IN /\ found_sets' = DictSet(found_sets, bfile_prefix,
                                           StoreBfile(rec, suffix, bfile_path, ancestry))
                  /\ walk_i' = walk_i + 1
                  /\ UNCHANGED <<upc, uerr>>
    /\ UNCHANGED <<tree, ancestries, usable>>
    /\ UNCHANGED <<mergeVars, gwasVars, magmaVars, toolVars>>

\* every entry is converted to a BFileSet, which validates it
U_Validate ==
    /\ upc = "walk"
    /\ walk_i > Len(tree)
    /\ IF \A k \in 1..Len(found_sets) : ModelValidates(found_sets[k][2])
       THEN upc' = "print" /\ uerr' = uerr
       ELSE upc' = "raised" /\ uerr' = "ValidationError"
    /\ UNCHANGED <<tree, ancestries, walk_i, found_sets, usable>>
    /\ UNCHANGED <<mergeVars, gwasVars, magmaVars, toolVars>>

\* the sets are printed and returned
U_Return ==
    /\ upc = "print"
    /\ usable' = found_sets
    /\ upc' = "returned"
    /\ UNCHANGED <<tree, ancestries, walk_i, found_sets, uerr>>
    /\ UNCHANGED <<mergeVars, gwasVars, magmaVars, toolVars>>

DiscoverNext ==
    \/ U_File
    \/ U_Validate
    \/ U_Return

(***************************************************************************)
(* run_magma and run_plink called with any flags, and the two callers of   *)
(* run_magma: gwas_processing.commands.annotate_variants and               *)
(* gene_analysis.  Keys, values and tokens are texts; the files the tool   *)
(* leaves are named by their suffix after the output prefix.               *)
(***************************************************************************)
MaxNoArg == 2
MaxPairs == 2

MagmaDir == <<"/", "m", "a", "g", "m", "a">>

\* values of the PATH environment variable
ToolPathChoices ==
    {<<"/", "b", "i", "n">>,
     <<"/", "b", "i", "n", ":", "/", "o", "p", "t", "/", "p", "l", "i", "n", "k">>,
     <<"/", "b", "i", "n", ":", "/", "o", "p", "t", "/", "m", "a", "g", "m", "a">>}

kAnnotate == <<"-", "-", "a", "n", "n", "o", "t", "a", "t", "e">>
kWindow == <<"w", "i", "n", "d", "o", "w">>
kGeneLoc == <<"-", "-", "g", "e", "n", "e", "-", "l", "o", "c">>
kSnpLoc == <<"-", "-", "s", "n", "p", "-", "l", "o", "c">>
kGeneAnnot == <<"-", "-", "g", "e", "n", "e", "-", "a", "n", "n", "o", "t">>
kPval == <<"-", "-", "p", "v", "a", "l">>
kSnpId == <<"s", "n", "p", "-", "i", "d">>
kPvalCol == <<"p", "v", "a", "l">>
kNTotal == <<"N">>
kNcol == <<"n", "c", "o", "l">>

\* keys a caller may pass in yes_arg_flags
FlagKeys == {kOut, kWindow, kNTotal, <<"-", "-", "2", "3", "f", "i", "l", "e">>, <<"-", "-", "O", "u", "t">>}

\* values a caller may pass in yes_arg_flags
FlagValues == {<<"x">>, <<"y", ".", "z">>}

\* no_arg_flags a caller may pass
NoArgFlags == {kMakeBed, kAnnotate}

\* the dictionaries over the keys ks, in their order
FlagDicts(ks) == {[i \in 1..Len(ks) |-> <<ks[i], vs[i]>>] : vs \in [1..Len(ks) -> FlagValues]}

\* the arguments of the callers of run_magma
cGeneLocPath == <<"g", "e", "n", "e", "s", ".", "l", "o", "c">>
cSnpLocPath == <<"s", "n", "p", "s", ".", "l", "o", "c">>
cOutPrefix == <<"o", "u", "t", "/", "t", "1">>
cBfilePrefix == <<"w", "o", "r", "k", "/", "m", "e", "r", "g", "e">>
cGeneAnnotPath == <<"o", "u", "t", "/", "t", "1", ".", "g", "e", "n", "e", "s", ".", "a", "n", "n", "o", "t">>
cGwasPath == <<"g", "w", "a", "s", ".", "t", "s", "v">>

\* annotation_window: None or a pair of sizes
WindowChoices == {None, <<10, 5>>}

\* n: an int, a str (a column name) or a float
SampleSizes == {IntLabel(100), StrLabel(cN), [t |-> "float", s |-> <<>>, i |-> 0]}

\* the files the tool may leave, by suffix after the output prefix
sGenesAnnot == <<".", "g", "e", "n", "e", "s", ".", "a", "n", "n", "o", "t">>
sLog == <<".", "l", "o", "g">>
sLogSuppl == <<".", "l", "o", "g", ".", "s", "u", "p", "p", "l">>
sGenesRaw == <<".", "g", "e", "n", "e", "s", ".", "r", "a", "w">>
sGenesOut == <<".", "g", "e", "n", "e", "s", ".", "o", "u", "t">>

\* one call: the operation and its arguments
ToolCalls ==
    {[op |-> o, no_arg_flags |-> na, yes_arg_flags |-> ya, window |-> None,
      n |-> IntLabel(0)] :
        o \in {"run_magma", "run_plink"},
        na \in SeqsOf(NoArgFlags, 0, MaxNoArg),
        ya \in UNION {FlagDicts(ks) : ks \in DistinctSeqs(FlagKeys, MaxPairs)}}
    \cup {[op |-> "annotate_variants", no_arg_flags |-> <<>>, yes_arg_flags |-> <<>>,
           window |-> w, n |-> IntLabel(0)] : w \in WindowChoices}
    \cup {[op |-> "gene_analysis", no_arg_flags |-> <<>>, yes_arg_flags |-> <<>>,
           window |-> None, n |-> n] : n \in SampleSizes}

\* re.search(r"^--[a-z]", key) of run_magma
MagmaKeyIsFlag(key) ==
    /\ Len(key) >= 3
    /\ key[1] = "-"
    /\ key[2] = "-"
    /\ key[3] \in LowerLetters

\* the command list run_magma builds
RECURSIVE MagmaPairs(_)
MagmaPairs(d) ==
    IF Len(d) = 0 THEN <<>>
    ELSE (IF MagmaKeyIsFlag(d[1][1]) THEN <<d[1][1], d[1][2]>>
          ELSE <<d[1][1] \o <<"=">> \o d[1][2]>>) \o MagmaPairs(Tail(d))

MagmaCommandList(no_arg_flags, yes_arg_flags) ==
    no_arg_flags \o MagmaPairs(yes_arg_flags)

\* what an invocation of the external tool leaves: it exits non-zero, or
\* exits zero having written some of the files its caller expects
ToolOutcomes(op) ==
    {[kind |-> "fail", produced |-> {}]}
    \cup {[kind |-> "ok", produced |-> p] :
            p \in CASE op = "annotate_variants" -> SUBSET {sGenesAnnot, sLog}
                    [] op = "gene_analysis" ->
                          {{}, {sLog, sLogSuppl, sGenesRaw},
                           {sLog, sLogSuppl, sGenesRaw, sGenesOut}}
                    [] OTHER -> {{}}}

ToolInit ==
    /\ tool_call \in ToolCalls
    /\ PATH \in ToolPathChoices
    /\ call_no_arg_flags = tool_call.no_arg_flags
    /\ call_yes_arg_flags = tool_call.yes_arg_flags
    /\ tool_calls = <<>>
    /\ tool_files = {}
    /\ tool_out = <<>>
    /\ tpc = (IF tool_call.op \in {"run_magma", "run_plink"} THEN tool_call.op ELSE "start")
    /\ terr = "none"
    /\ bfile_sets = <<>>
    /\ keep = [given |-> FALSE, patterns |-> <<>>]
    /\ output_prefix = "merge"
    /\ files = <<>>
    /\ to_merge = <<>>
    /\ flags = <<>>
    /\ prune_flags = <<>>
    /\ merge_problem_variants = <<>>
    /\ prune_i = 0
    /\ plink_calls = <<>>
    /\ mpc = "idle"
    /\ merr = "none"
    /\ merged = <<>>
    /\ gwas_header = <<>>
    /\ gwas_rows = <<>>
    /\ gwas_args = <<>>
    /\ column_patterns = <<>>
    /\ gwas = EmptyFrame
    /\ gpc = "idle"
    /\ gerr = "none"
    /\ magma_header = <<>>
    /\ magma_rows = <<>>
    /\ magma_args = <<>>
    /\ trait_gene_set = EmptyFrame
    /\ gene_set_text = <<>>
    /\ gene_set_out = <<>>
    /\ spc = "idle"
    /\ serr = "none"
    /\ tree = <<>>
    /\ ancestries = <<>>
    /\ walk_i = 0
    /\ found_sets = <<>>
    /\ usable = <<>>
    /\ upc = "idle"
    /\ uerr = "none"

\* annotate_variants up to its call of run_magma
A_Annotate ==
    /\ tpc = "start"
    /\ tool_call.op = "annotate_variants"
    /\ IF tool_call.window = None
       THEN \* annotation_window[0] in the dict literal, before the None test
            /\ tpc' = "raised"
            /\ terr' = "TypeError"
            /\ UNCHANGED <<call_no_arg_flags, call_yes_arg_flags>>
       ELSE /\ call_no_arg_flags' = <<kAnnotate>>
            /\ call_yes_arg_flags' =
                  <<<<kWindow, IntToStr(tool_call.window[1]) \o <<",">>
                                  \o IntToStr(tool_call.window[2])>>,
                    <<kGeneLoc, cGeneLocPath>>,
                    <<kSnpLoc, cSnpLocPath>>,
                    <<kOut, cOutPrefix>>>>
            /\ tpc' = "run_magma"
            /\ terr' = terr
    /\ UNCHANGED <<tool_call, tool_calls, tool_files, tool_out>>
    /\ UNCHANGED <<mergeVars, gwasVars, magmaVars, discVars>>

\* gene_analysis up to its call of run_magma; the sample size is kept as the
\* text run_magma formats it to
A_GeneAnalysis ==
    /\ tpc = "start"
    /\ tool_call.op = "gene_analysis"
    /\ LET base == <<<<kBfile, cBfilePrefix>>,
                     <<kGeneAnnot, cGeneAnnotPath>>,
                     <<kPval, cGwasPath>>,
                     <<kSnpId, cSNP>>,
                     <<kPvalCol, cP>>>>
       IN IF tool_call.n.t = "int"
          THEN /\ call_yes_arg_flags' =
                     DictSet(DictSet(base, kNTotal, IntToStr(tool_call.n.i)),
                             kOut, cOutPrefix)
               /\ tpc' = "run_magma"
               /\ terr' = terr
          ELSE IF tool_call.n.t = "str"
          THEN /\ call_yes_arg_flags' =
                     DictSet(DictSet(base, kNcol, tool_call.n.s), kOut, cOutPrefix)
               /\ tpc' = "run_magma"
               /\ terr' = terr
          ELSE /\ tpc' = "raised"
               /\ terr' = "NotImplementedError"
               /\ UNCHANGED call_yes_arg_flags
    /\ call_no_arg_flags' = <<>>
    /\ UNCHANGED <<tool_call, tool_calls, tool_files, tool_out>>
    /\ UNCHANGED <<mergeVars, gwasVars, magmaVars, discVars>>

\* run_magma: the PATH assertion, the command list, the invocation
T_RunMagma ==
    /\ tpc = "run_magma"
    /\ IF ~Contains(PATH, MagmaDir)
       THEN /\ tpc' = "raised"
            /\ terr' = "AssertionError"
            /\ UNCHANGED <<tool_calls, tool_files>>
       ELSE \E outcome \in ToolOutcomes(tool_call.op) :
               /\ tool_calls' = Append(tool_calls,
                      [tool |-> "magma",
                       cmd |-> MagmaCommandList(call_no_arg_flags, call_yes_arg_flags)])
               /\ tool_files' = tool_files \cup outcome.produced
               /\ IF outcome.kind = "ok"
                  THEN /\ tpc' = (IF tool_call.op = "run_magma" THEN "returned" ELSE "check")
                       /\ terr' = terr
                  ELSE tpc' = "raised" /\ terr' = "ErrorReturnCode"
    /\ UNCHANGED <<tool_call, call_no_arg_flags, call_yes_arg_flags, tool_out>>
    /\ UNCHANGED <<mergeVars, gwasVars, magmaVars, discVars>>

\* run_plink: the PATH assertion, the command list, the invocation
T_RunPlink ==
    /\ tpc = "run_plink"
    /\ IF ~Contains(PATH, PlinkDir)
       THEN /\ tpc' = "raised"
            /\ terr' = "AssertionError"
            /\ UNCHANGED <<tool_calls, tool_files>>
       ELSE \E outcome \in ToolOutcomes(tool_call.op) :
               /\ tool_calls' = Append(tool_calls,
                      [tool |-> "plink",
                       cmd |-> PlinkCommandList(call_no_arg_flags, call_yes_arg_flags)])
               /\ tool_files' = tool_files \cup outcome.produced
               /\ IF outcome.kind = "ok"
                  THEN tpc' = "returned" /\ terr' = terr
                  ELSE tpc' = "raised" /\ terr' = "ErrorReturnCode"
    /\ UNCHANGED <<tool_call, call_no_arg_flags, call_yes_arg_flags, tool_out>>
    /\ UNCHANGED <<mergeVars, gwasVars, magmaVars, discVars>>

\* annotate_variants after run_magma: the existence assertions and the return
A_AnnotateCheck ==
    /\ tpc = "check"
    /\ tool_call.op = "annotate_variants"
    /\ IF {sGenesAnnot, sLog} \subseteq tool_files
       THEN /\ tool_out' = <<cOutPrefix \o sGenesAnnot, cOutPrefix \o sLog>>
            /\ tpc' = "returned"
            /\ terr' = terr
       ELSE /\ tpc' = "raised"
            /\ terr' = "AssertionError"
            /\ UNCHANGED tool_out
    /\ UNCHANGED <<tool_call, call_no_arg_flags, call_yes_arg_flags, tool_calls,
                   tool_files>>
    /\ UNCHANGED <<mergeVars, gwasVars, magmaVars, discVars>>

\* gene_analysis after run_magma: the existence assertions and the return
A_GeneAnalysisCheck ==
    /\ tpc = "check"
    /\ tool_call.op = "gene_analysis"
    /\ IF {sLog, sLogSuppl, sGenesRaw, sGenesOut} \subseteq tool_files
       THEN /\ tool_out' = <<cOutPrefix \o sGenesOut, cOutPrefix \o sGenesRaw,
                             cOutPrefix \o sLog, cOutPrefix \o sLogSuppl>>
            /\ tpc' = "returned"
            /\ terr' = terr
       ELSE /\ tpc' = "raised"
            /\ terr' = "AssertionError"
            /\ UNCHANGED tool_out
    /\ UNCHANGED <<tool_call, call_no_arg_flags, call_yes_arg_flags, tool_calls,
                   tool_files>>
    /\ UNCHANGED <<mergeVars, gwasVars, magmaVars, discVars>>

ToolNext ==
    \/ A_Annotate
    \/ A_GeneAnalysis
    \/ T_RunMagma
    \/ T_RunPlink
    \/ A_AnnotateCheck
    \/ A_GeneAnalysisCheck

(***************************************************************************)
(* The specifications: one run of each operation, from any of its inputs.  *)
(***************************************************************************)
SpecMerge == MergeInit /\ [][MergeNext]_vars

SpecGwas == GwasInit /\ [][GwasNext]_vars

SpecMagma == MagmaInit /\ [][MagmaNext]_vars

SpecDiscover == DiscoverInit /\ [][DiscoverNext]_vars

SpecTool == ToolInit /\ [][ToolNext]_vars

(***************************************************************************)
(* Properties of merge_bfiles (under SpecMerge).                           *)
(***************************************************************************)
\* the invocations that merge: their second key is --merge-list
MergeCalls == {i \in 1..Len(plink_calls) : plink_calls[i].cmd[4] = kMergeList}

\* the merge invocations that follow an earlier one
RetryCalls == {i \in MergeCalls : \E j \in MergeCalls : j < i}

\* a pruned copy the prune step of this run made, without the conflicting
\* identifiers
IsPrunedCopy(path) ==
    /\ path \in Range(pruned_bfiles)
    /\ path.name \in DOMAIN files
    /\ files[path.name].excluded = merge_problem_variants

\* C1: every set the retry merge invocation reads (its base set and the sets
\* of its merge list) is a pruned copy made earlier in the run by the prune
\* step; no original set is an input of the retry.
C1_RetryReadsOnlyPruned ==
    \A i \in RetryCalls :
        \A k \in 1..Len(plink_calls[i].reads) : IsPrunedCopy(plink_calls[i].reads[k])

\* C2: the merge is invoked at most twice; a retry that exits non-zero is the
\* last invocation of the run, which ends with the tool's failure raised to
\* the caller.
C2_AtMostTwoMerges ==
    /\ Cardinality(MergeCalls) <= 2
    /\ \A i \in RetryCalls :
          plink_calls[i].exit # "ok" =>
              /\ i = Len(plink_calls)
              /\ mpc = "raised"
              /\ merr = "ErrorReturnCode"

\* a retry that failed with a new conflict
C2_RetryFailed ==
    \E i \in RetryCalls :
        /\ plink_calls[i].exit = "conflict"
        /\ Len(plink_calls) >= 4
        /\ mpc = "raised"

\* C3: when the first merge invocation exits non-zero without the conflict
\* signal, nothing is renamed, no exclusion list is written, no other
\* invocation happens and the error raised to the caller is the tool's.
C3_OtherFailurePropagates ==
    (Len(plink_calls) >= 1 /\ plink_calls[1].exit = "fail") =>
        /\ Len(plink_calls) = 1
        /\ FailedMissnp \notin DOMAIN files
        /\ FailedLog \notin DOMAIN files
        /\ ExcludeFile \notin DOMAIN files
        /\ mpc \in {"except", "raised"}
        /\ (mpc = "raised" => merr = "ErrorReturnCode")

\* C4: merge_bfiles returns the merged paths only when the three merged files
\* exist; a merge invocation that exited successfully without one of them is
\* the last invocation, and the run ends in the assertion's error.
C4_ReturnOnlyWithOutputs ==
    /\ mpc = "returned" =>
          /\ \A i \in 1..3 : MergedPaths[i].name \in DOMAIN files
          /\ merged = MergedPaths
    /\ \A i \in MergeCalls :
          (/\ plink_calls[i].exit = "ok"
           /\ \E k \in 1..3 : MergedPaths[k].name \notin DOMAIN files) =>
              /\ i = Len(plink_calls)
              /\ mpc \in {"check", "raised"}
              /\ (mpc = "raised" => merr = "AssertionError")

\* the merged paths returned after a retry
C4_ReturnedAfterRetry ==
    /\ mpc = "returned"
    /\ RetryCalls # {}
    /\ merged = MergedPaths

\* C5: for any output prefix, once the handler of a conflict has run, the
\* conflict list and the log are kept as failed_merge.missnp and
\* failed_merge.log and exclude_merge_variants.txt holds exactly the
\* identifiers extracted from the conflict list, in file order.
C5_ConflictArtifactsKept ==
    (Len(plink_calls) >= 1 /\ plink_calls[1].exit = "conflict" /\ mpc # "except") =>
        /\ FailedMissnp \in DOMAIN files
        /\ FailedLog \in DOMAIN files
        /\ ExcludeFile \in DOMAIN files
        /\ files[ExcludeFile] = ExtractVariants(files[FailedMissnp])

(***************************************************************************)
(* Properties of munge_magma (under SpecMagma).                            *)
(***************************************************************************)
Min(a, b) == IF a < b THEN a ELSE b

\* a table with the default column names, read with its header
DefaultGeneColumns ==
    /\ magma_args.header
    /\ magma_args.gene_column = StrLabel(cGENE)
    /\ magma_args.pvalue_column = StrLabel(cP)
    /\ magma_header = <<cGENE, cP>>

\* C6: the gene string is the comma-join of the first min(N, row count) genes
\* of the table sorted ascending by significance value.
C6_TopNGenes ==
    (DefaultGeneColumns /\ spc \in {"write", "returned", "raised"}) =>
        /\ spc # "raised"
        /\ \A j \in 1..(Len(trait_gene_set.rows) - 1) :
              trait_gene_set.rows[j][2].v <= trait_gene_set.rows[j + 1][2].v
        /\ gene_set_text =
              Join([j \in 1..Min(magma_args.num_genes, Len(magma_rows)) |->
                       trait_gene_set.rows[j][1].v], <<",">>)

(***************************************************************************)
(* Properties of munge_gwas (under SpecGwas).                              *)
(***************************************************************************)
\* the cells of row r of the input file
InId(r) == gwas_rows[r][1]
InChr(r) == gwas_rows[r][2]
InBp(r) == gwas_rows[r][3]
InRef(r) == gwas_rows[r][4]
InEffect(r) == gwas_rows[r][5]
InPval(r) == gwas_rows[r][6]

GwasEnded == gpc \in {"returned", "raised"}

\* the keys whose column is resolved, by override or by inference, to a
\* column of the header
ResolvedInHeader(keys) ==
    \A key \in keys :
        /\ column_patterns[key].is_str
        /\ column_patterns[key].name \in Range(gwas_header)

\* the output column of a resolved key, in output row j
OutCell(j, key) == gwas.rows[j][ColPos(gwas, column_patterns[key].name)]

\* C7: when the identifier, chromosome, position, reference-allele and
\* effect-allele columns resolve, every output row has an identifier: the
\* chromosome_position_reference_effect of its own row when it had none, and
\* its own identifier otherwise.
C7_IdentifiersBackfilled ==
    (/\ GwasEnded
     /\ ResolvedInHeader({"pval", "variant_id", "chr", "bp", "ref_allele", "effect_allele"})
     /\ ~column_patterns["n"].is_str
     /\ \E r \in 1..Len(gwas_rows) : InId(r).na) =>
        /\ gpc = "returned"
        /\ \A j \in 1..Len(gwas.rows) :
              LET r == gwas.idx[j] + 1
              IN OutCell(j, "variant_id") =
                    IF InId(r).na
                    THEN StrCell(InChr(r).v \o <<"_">> \o IntToStr(InBp(r).v) \o <<"_">>
                                 \o InRef(r).v \o <<"_">> \o InEffect(r).v)
                    ELSE InId(r)

\* C8: when the mandatory columns resolve, munge_gwas completes and its output
\* has exactly the columns [variant ID, chromosome, position, p-value].
C8_FourColumns ==
    (/\ GwasEnded
     /\ ResolvedInHeader({"pval", "variant_id", "chr", "bp", "ref_allele", "effect_allele"})) =>
        /\ gpc = "returned"
        /\ gwas.cols = <<column_patterns["variant_id"].name, column_patterns["chr"].name,
                         column_patterns["bp"].name, column_patterns["pval"].name>>

\* C9: for the rows that have a p-value, every output p-value is at least
\* 1e-307 (10 units), a p-value under 1e-307 becomes 1e-307 and any other is
\* unchanged.
C9_FloorAsStated ==
    gpc = "returned" =>
        \A j \in 1..Len(gwas.rows) :
            LET r == gwas.idx[j] + 1
            IN \/ InPval(r).na
               \/ /\ ~OutCell(j, "pval").na
                  /\ OutCell(j, "pval").v >= 10
                  /\ OutCell(j, "pval").v = IF InPval(r).v < 10 THEN 10 ELSE InPval(r).v

\* C10: the output rows are the input rows with an effect allele, all of
\* them, in their order.
C10_EffectAlleleFilter ==
    gpc = "returned" =>
        gwas.idx = [j \in 1..Len(SelectSeq(Indices(Len(gwas_rows)),
                                           LAMBDA r : ~InEffect(r).na)) |->
                       SelectSeq(Indices(Len(gwas_rows)), LAMBDA r : ~InEffect(r).na)[j] - 1]

\* a row with neither identifier nor effect allele was dropped, another kept
C10_SynthesizedRowDropped ==
    /\ gpc = "returned"
    /\ Len(gwas.rows) >= 1
    /\ \E r \in 1..Len(gwas_rows) : InId(r).na /\ InEffect(r).na

(***************************************************************************)
(* Properties of use_bfiles (under SpecDiscover).                          *)
(***************************************************************************)
\* the path of the file the walk is at
CurrentPath == WalkPath(tree[walk_i])

\* a file discovery has no use for: its extension is not .bed/.bim/.fam, or
\* its path holds no ancestry code between non-letter characters
Unusable(p) ==
    \/ PathSuffix(p) \notin BFileTypeValues
    \/ AncestrySearch(p) = None

\* C11: during discovery a file whose extension is not .bed/.bim/.fam, and a
\* file with such an extension whose path holds no ancestry code between
\* non-letter characters, is skipped: no error is raised, the mapping is
\* unchanged and discovery goes on with the next file.
C11_UnusableFilesSkipped ==
    [][(upc = "walk" /\ walk_i <= Len(tree) /\ Unusable(CurrentPath))
          => /\ uerr' = "none"
             /\ upc' = "walk"
             /\ found_sets' = found_sets
             /\ walk_i' = walk_i + 1]_vars

\* the paths of the tree
TreePaths == {WalkPath(tree[i]) : i \in 1..Len(tree)}

\* the files of the tree that belong to a set of an allowed ancestry
AllowedPaths ==
    {p \in TreePaths :
        /\ PathSuffix(p) \in BFileTypeValues
        /\ \E k \in 1..Len(ancestries) : ancestries[k] = AncestrySearch(p)}

\* the components of the prefix of p that the tree holds
ComponentsOf(p) ==
    {PathSuffix(q) : q \in {r \in AllowedPaths : BfilePrefix(r) = BfilePrefix(p)}}

\* some prefix of an allowed ancestry lacks a component in the tree
SomeIncomplete == \E p \in AllowedPaths : ComponentsOf(p) # BFileTypeValues

\* the tree of the example: panel.afr.bed, panel.afr.bim and panel.afr.fam
\* in bfile_dir, and nothing else
PanelAfr ==
    /\ Len(tree) = 3
    /\ {tree[i].file : i \in 1..Len(tree)}
          = {<<"p", "a", "n", "e", "l", ".", "a", "f", "r", ".", "b", "e", "d">>,
             <<"p", "a", "n", "e", "l", ".", "a", "f", "r", ".", "b", "i", "m">>,
             <<"p", "a", "n", "e", "l", ".", "a", "f", "r", ".", "f", "a", "m">>}

\* C12: every record of the returned mapping has its BED, BIM and FAM paths
\* and an ancestry of the allow-list; when a prefix of an allowed ancestry has
\* fewer than three components in the tree, use_bfiles ends in the failure of
\* the completeness check and returns nothing; panel.afr.bed/.bim/.fam with
\* AFRICAN allowed give exactly one record, of ancestry AFRICAN.
C12_OnlyCompleteAllowedSets ==
    (upc \in {"returned", "raised"}) =>
        /\ upc = "returned" =>
              \A k \in 1..Len(usable) :
                  /\ usable[k][2].BED # None
                  /\ usable[k][2].BIM # None
                  /\ usable[k][2].FAM # None
                  /\ \E a \in 1..Len(ancestries) : ancestries[a] = usable[k][2].ANCESTRY
        /\ SomeIncomplete => (upc = "raised" /\ uerr = "ValidationError")
        /\ (PanelAfr /\ <<"a", "f", "r">> \in Range(ancestries)) =>
              /\ upc = "returned"
              /\ Len(usable) = 1
              /\ usable[1][2].ANCESTRY = <<"a", "f", "r">>

(***************************************************************************)
(* The gene-identifier remap of munge_magma (under SpecMagma).             *)
(***************************************************************************)
\* the gene and p-value columns the caller names are columns of the table:
\* header names of a table read with its header, positions of one without
GeneColumnsGiven ==
    IF magma_args.header
    THEN /\ magma_args.gene_column.t = "str"
         /\ magma_args.pvalue_column.t = "str"
         /\ magma_args.gene_column.s \in Range(magma_header)
         /\ magma_args.pvalue_column.s \in Range(magma_header)
    ELSE /\ magma_args.gene_column = IntLabel(0)
         /\ magma_args.pvalue_column = IntLabel(1)

\* the name an identifier of the table is to appear under
MappedName(id) ==
    IF DictHas(magma_args.gene_name_map, id)
    THEN DictGet(magma_args.gene_name_map, id)
    ELSE id

\* C13: with a gene_name_map, whatever the gene column is (default name,
\* custom header name, position without header), munge_magma completes the
\* remap and the selection of a table that holds a gene, and every gene of
\* the output string is the mapped name of its identifier when the identifier
\* is a key of the mapping, the identifier itself when it is not.
C13_GeneNamesRemapped ==
    (Len(magma_args.gene_name_map) > 0 /\ GeneColumnsGiven /\ Len(magma_rows) > 0) =>
        /\ spc = "raised" => LocRaises(trait_gene_set.idx, magma_args.num_genes)
        /\ spc \in {"write", "returned"} =>
              gene_set_text =
                  Join([j \in 1..LocStop(trait_gene_set.idx, magma_args.num_genes) |->
                           MappedName(GeneIds[trait_gene_set.idx[j] + 1])], <<",">>)

(***************************************************************************)
(* Configuration errors (under SpecMerge, SpecGwas and SpecTool).          *)
(***************************************************************************)
\* merge_bfiles ended by the PATH assertion of run_plink
MergeConfigError ==
    /\ mpc = "raised"
    /\ merr = "AssertionError"
    /\ ~Contains(PATH, PlinkDir)

\* munge_gwas ended by the assertion on its mandatory columns
GwasConfigError ==
    /\ gpc = "raised"
    /\ gerr = "AssertionError"

\* run_magma or run_plink, called directly or through annotate_variants or
\* gene_analysis, ended by its PATH assertion; gene_analysis ended by the
\* type of its sample size
ToolConfigError ==
    /\ tpc = "raised"
    /\ \/ /\ terr = "AssertionError"
          /\ ~Contains(PATH, IF tool_call.op = "run_plink" THEN PlinkDir ELSE MagmaDir)
       \/ terr = "NotImplementedError"

\* C14: a configuration error (an unresolved mandatory column of munge_gwas,
\* the executable's directory missing from PATH in run_plink or run_magma,
\* also through merge_bfiles, annotate_variants and gene_analysis, a sample
\* size that is neither int nor str) is raised before any external process is
\* started and before the failing operation has written any file.
C14_ConfigErrorsBeforeAnyEffect ==
    /\ MergeConfigError => (plink_calls = <<>> /\ DOMAIN files = {})
    /\ GwasConfigError => gwas = EmptyFrame
    /\ ToolConfigError => (tool_calls = <<>> /\ tool_files = {})

(***************************************************************************)
(* The command list of run_magma and run_plink (under SpecTool).           *)
(***************************************************************************)
\* the tokens of the key/value pairs as stated: a key that begins with "--"
\* gives the two tokens key and value, any other key the token key=value
RECURSIVE StatedPairs(_)
StatedPairs(d) ==
    IF Len(d) = 0 THEN <<>>
    ELSE (IF StartsWith(d[1][1], <<"-", "-">>)
          THEN <<d[1][1], d[1][2]>>
          ELSE <<d[1][1] \o <<"=">> \o d[1][2]>>) \o StatedPairs(Tail(d))

\* C15: run_magma and run_plink build the same token list from the same
\* arguments: the no-value flags in their order, then for each key/value pair
\* in insertion order the tokens key and value when the key begins with "--",
\* the single token key=value otherwise; no pair is dropped, duplicated or
\* reordered.
C15_SameTokenList ==
    /\ MagmaCommandList(call_no_arg_flags, call_yes_arg_flags)
          = PlinkCommandList(call_no_arg_flags, call_yes_arg_flags)
    /\ \A i \in 1..Len(tool_calls) :
          tool_calls[i].cmd = call_no_arg_flags \o StatedPairs(call_yes_arg_flags)

=============================================================================
